---- MODULE Spec2Model ----
(***************************************************************************)
(* A model of the MiniMax TTS plugin (modular generation):                 *)
(*   - RateLimiter.acquire                       (src/api_client.py)       *)
(*   - MiniMaxAPIClient.auto_synthesize and the three synthesis paths      *)
(*   - the shared pending-TTS state and the post-generation handler        *)
(*   - VoiceCloneManager's registry and its backing file                   *)
(* Each component has its own specification; the variables of the other    *)
(* components stay at their idle value.                                    *)
(***************************************************************************)
EXTENDS Integers, Sequences, FiniteSets, TLC

VARIABLES
    \* ---- RateLimiter (src/api_client.py:20-35) and its callers
    now,          \* time.monotonic(), in seconds
    rl_rpm,       \* the rpm the limiter was constructed with
    rl_last,      \* RateLimiter._last_time
    rl_holder,    \* the caller holding RateLimiter._lock, 0 when free
    rl_pc,        \* caller -> "idle" | "wait_lock" | "sleeping"
    rl_wake,      \* caller -> earliest time its asyncio.sleep(wait) may end
    rl_grants,    \* history: one record per returned acquire(), in order
    rl_ticks,     \* history: number of clock advances so far
    \* ---- one MiniMaxAPIClient.auto_synthesize call (src/api_client.py:192-635)
    sy_cfg,       \* what get_config returns, and the call's arguments
    sy_pc,        \* the call's position
    sy_path,      \* "none" | "sync" | "stream" | "async": the path dispatched to
    sy_attempt,   \* synthesize: the loop variable attempt
    sy_elapsed,   \* synthesize_async: the loop variable elapsed
    sy_granted,   \* a rate-limiter grant was obtained and not yet used
    sy_reqs,      \* history: the HTTP requests sent, in order
    sy_resps,     \* history: the responses to the requests of synthesize
    sy_last,      \* history: the last response synthesize_async received
    sy_sleeps,    \* history: the durations of the asyncio.sleep calls
    sy_result,    \* "pending" | "none" | "file" | "url"
    sy_file,      \* the chunks written to the cache file, <<>> when none
    \* ---- shared pending-TTS state (src/components/tts_tool.py:14-64) and the
    \* ---- post-generation handler (src/components/tts_handler.py:38-128)
    ch_pend,      \* _tts_pending_chats
    ch_emo,       \* _tts_pending_emotions, NoKey where a chat has no entry
    ch_always,    \* _tts_always_chats
    ch_trues,     \* history: chat -> consumes that returned True since its last mark
    h,            \* the handler invocation in flight
    \* ---- VoiceCloneManager (src/voice_clone.py:22-117)
    rg_loaded,    \* self._voices is not None
    rg_mem,       \* self._voices: voice id -> record (<<>> while not loaded)
    rg_file,      \* cloned_voices.json
    rg_lock,      \* the task holding self._lock, 0 when free
    rg_task,      \* task -> the registry call it is in
    rg_add,       \* history: the last add_voice that returned True
    rg_done,      \* history: the call that just returned, and what it returned
    rg_seq,       \* history: the registry had the returned calls run one by one
    \* ---- the commands (src/components/*_command.py, clone_commands.py)
    cm,           \* the command in flight
    cm_n,         \* commands started so far
    \* ---- functions and calls followed on their own
    ex,           \* one check_expired_voices call: registry, argument, result
    cc,           \* one cleanup_audio_cache call: the directory, the argument, the result
    cl,           \* the /clone_voice commands in flight, and what they stored
    rb,           \* one _build_request_body call: configuration, arguments, the body built
    ar,           \* one _process_audio_response call: the value, the cache directory, what is returned
    gi,           \* MiniMaxAPIClient: the singleton, its session and limiter, and their callers
    ss,           \* one synthesize_stream call from its request on: the stream, the fragments, the cache directory
    inj,          \* the pre-generation prompt injector invocation in flight
    po            \* the last operation on the pending-TTS state, with what it was given and returned

rlVars == <<now, rl_rpm, rl_last, rl_holder, rl_pc, rl_wake, rl_grants, rl_ticks>>

synVars == <<sy_cfg, sy_pc, sy_path, sy_attempt, sy_elapsed, sy_granted, sy_reqs,
             sy_resps, sy_last, sy_sleeps, sy_result, sy_file>>

chatVars == <<ch_pend, ch_emo, ch_always, ch_trues, h>>

regVars == <<rg_loaded, rg_mem, rg_file, rg_lock, rg_task, rg_add, rg_done, rg_seq>>

cmdVars == <<cm, cm_n>>

utilVars == <<ex, cc, cl, rb, ar, gi, ss, inj, po>>

vars == <<rlVars, synVars, chatVars, regVars, cmdVars, utilVars>>

\* What the actions of one component leave alone: the other components.
RLFrame == UNCHANGED <<synVars, chatVars, regVars, cmdVars, utilVars>>
SynFrame == UNCHANGED <<rlVars, chatVars, regVars, cmdVars, utilVars>>
ChatFrame == UNCHANGED <<rlVars, synVars, regVars, cmdVars, utilVars>>
RegFrame == UNCHANGED <<rlVars, synVars, chatVars, cmdVars, utilVars>>
CmdFrame == UNCHANGED <<rlVars, synVars, ch_pend, ch_emo, ch_trues, h, utilVars>>
UtilFrame == UNCHANGED <<rlVars, synVars, chatVars, regVars, cmdVars>>
ExFrame == UtilFrame /\ UNCHANGED <<cc, cl, rb, ar, gi, ss, inj, po>>
CcFrame == UtilFrame /\ UNCHANGED <<ex, cl, rb, ar, gi, ss, inj, po>>
ClFrame == UNCHANGED <<rlVars, synVars, chatVars, cmdVars, ex, cc, rb, ar, gi, ss, inj, po>>
RbFrame == UtilFrame /\ UNCHANGED <<ex, cc, cl, ar, gi, ss, inj, po>>
ArFrame == UtilFrame /\ UNCHANGED <<ex, cc, cl, rb, gi, ss, inj, po>>
GiFrame == UtilFrame /\ UNCHANGED <<ex, cc, cl, rb, ar, ss, inj, po>>
SsFrame == UtilFrame /\ UNCHANGED <<ex, cc, cl, rb, ar, gi, inj, po>>
InjFrame == UtilFrame /\ UNCHANGED <<ex, cc, cl, rb, ar, gi, ss, po>>
PoFrame == UNCHANGED <<rlVars, synVars, regVars, cmdVars, ex, cc, cl, rb, ar, gi, ss, inj>>

Max(a, b) == IF a >= b THEN a ELSE b
Min(a, b) == IF a <= b THEN a ELSE b

(***************************************************************************)
(* RateLimiter                                                             *)
(***************************************************************************)

\* Bounds of the rate-limiter model.
NumCallers == 2      \* concurrent callers of acquire()
MaxGrants == 3       \* acquire() calls that are started in one behaviour
MaxTicks == 4        \* clock advances in one behaviour

RLCallers == 1..NumCallers

\* rpm values the limiter is constructed with (non-positive ones are clamped).
RpmChoices == {0, 20, 60}

\* time.monotonic() when the first caller arrives (any non-negative value).
StartTimes == {0, 100}

\* RateLimiter.__init__: self._rpm = max(1, rpm)
RLRpm(rpm) == Max(1, rpm)

\* RateLimiter.__init__: self._interval = 60.0 / self._rpm
RLInterval(rpm) == 60 \div RLRpm(rpm)

RLWaitNoInterval(last, interval, t) == last - t

\* RateLimiter.acquire: wait = self._last_time + self._interval - now
RLWait(last, interval, t) == last + interval - t

InitRL ==
    /\ now \in StartTimes
    /\ rl_rpm \in RpmChoices
    /\ rl_last = 0
    /\ rl_holder = 0
    /\ rl_pc = [c \in RLCallers |-> "idle"]
    /\ rl_wake = [c \in RLCallers |-> 0]
    /\ rl_grants = <<>>
    /\ rl_ticks = 0

IdleRL ==
    /\ now = 0
    /\ rl_rpm = 60
    /\ rl_last = 0
    /\ rl_holder = 0
    /\ rl_pc = [c \in RLCallers |-> "idle"]
    /\ rl_wake = [c \in RLCallers |-> 0]
    /\ rl_grants = <<>>
    /\ rl_ticks = 0

RLStarted == Cardinality({c \in RLCallers : rl_pc[c] # "idle"}) + Len(rl_grants)

\* A caller reaches "async with self._lock" and queues on the lock.
RLCall(c) ==
    /\ rl_pc[c] = "idle"
    /\ RLStarted < MaxGrants
    /\ rl_pc' = [rl_pc EXCEPT ![c] = "wait_lock"]
    /\ UNCHANGED <<now, rl_rpm, rl_last, rl_holder, rl_wake, rl_grants, rl_ticks>>
    /\ RLFrame

\* The lock is granted; the body runs to its first suspension point: either
\* asyncio.sleep(wait), or (wait <= 0) the stamp, the release and the return.
RLEnter(c) ==
    /\ rl_pc[c] = "wait_lock"
    /\ rl_holder = 0
    /\ LET wait == RLWait(rl_last, RLInterval(rl_rpm), now) IN
         IF wait > 0
           THEN /\ rl_holder' = c
                /\ rl_pc' = [rl_pc EXCEPT ![c] = "sleeping"]
                /\ rl_wake' = [rl_wake EXCEPT ![c] = now + wait]
                /\ UNCHANGED <<rl_last, rl_grants>>
           ELSE /\ rl_last' = now
                /\ rl_grants' = Append(rl_grants, [c |-> c, t |-> now, slept |-> FALSE])
                /\ rl_pc' = [rl_pc EXCEPT ![c] = "idle"]
                /\ UNCHANGED <<rl_holder, rl_wake>>
    /\ UNCHANGED <<now, rl_rpm, rl_ticks>>
    /\ RLFrame

\* asyncio.sleep(wait) is over: self._last_time = time.monotonic(), the lock
\* is released and acquire() returns.
RLWake(c) ==
    /\ rl_pc[c] = "sleeping"
    /\ rl_holder = c
    /\ now >= rl_wake[c]
    /\ rl_last' = now
    /\ rl_grants' = Append(rl_grants, [c |-> c, t |-> now, slept |-> TRUE])
    /\ rl_holder' = 0
    /\ rl_pc' = [rl_pc EXCEPT ![c] = "idle"]
    /\ UNCHANGED <<now, rl_rpm, rl_wake, rl_ticks>>
    /\ RLFrame

\* The clock advances while the event loop is busy or idle: by one second, to
\* just before the end of an interval, or by a whole interval.
RLTick ==
    /\ rl_ticks < MaxTicks
    /\ \E d \in {1, RLInterval(rl_rpm) - 1, RLInterval(rl_rpm)} :
         /\ d > 0
         /\ now' = now + d
    /\ rl_ticks' = rl_ticks + 1
    /\ UNCHANGED <<rl_rpm, rl_last, rl_holder, rl_pc, rl_wake, rl_grants>>
    /\ RLFrame

NextRL ==
    \/ \E c \in RLCallers : RLCall(c)
    \/ \E c \in RLCallers : RLEnter(c)
    \/ \E c \in RLCallers : RLWake(c)
    \/ RLTick

(***************************************************************************)
(* MiniMaxAPIClient: auto_synthesize, synthesize, synthesize_stream,       *)
(* synthesize_async, _download_audio                                       *)
(***************************************************************************)

\* Bounds of the synthesis model.
MaxRetriesBound == 4   \* largest configured minimax.max_retries
MaxEvents == 2         \* most lines of one SSE stream
MaxWaitBound == 3      \* largest configured minimax.async_max_wait

\* config_schema.RETRYABLE_ERROR_CODES
RETRYABLE_ERROR_CODES == {1001, 1002}

\* config_schema.FATAL_ERROR_CODES
FATAL_ERROR_CODES == {1004, 1008}

RECURSIVE Pow2(_)
Pow2(n) == IF n <= 0 THEN 1 ELSE 2 * Pow2(n - 1)

\* minimax.async_poll_interval is a float (default 2.0), minimax.async_max_wait
\* an int.  The polling loop's durations are counted in tenths of a second:
\* the intervals are 0.1 s, 1.0 s and 2.0 s.
PollIntervals == {1, 10, 20}

\* The intervals whose multiples a double holds exactly.
ExactIntervals == {10, 20}

Tenths(seconds) == 10 * seconds

\* "elapsed += poll_interval" in IEEE-754 doubles with poll_interval = 0.1:
\* the whole numbers of seconds W at which the sum of 10 * W additions is
\* still below W (0.9999999999999999, 4.999999999999998, 5.999999999999995;
\* at 2, 3 and 4 the sum is above).
RoundedBelow == {1, 5, 6}

\* The comparison "elapsed < max_wait" as the interpreter computes it, elapsed
\* being the exact sum in tenths.
ElapsedBelow(elapsed, cfg) ==
    \/ elapsed < Tenths(cfg.max_wait)
    \/ /\ cfg.poll_interval \notin ExactIntervals
       /\ elapsed = Tenths(cfg.max_wait)
       /\ cfg.max_wait \in RoundedBelow

\* The configuration and the arguments of one call. Fields that the path a
\* configuration dispatches to never reads are held at their smallest value.
SynConfigsAll ==
    [ creds : BOOLEAN,                 \* api_key and voice_id are both non-empty
      async_enabled : BOOLEAN,
      async_threshold : {2},
      stream_enabled : BOOLEAN,
      text_len : 1..3,
      max_retries : 0..MaxRetriesBound,
      retry_delay : {1, 3},
      poll_interval : PollIntervals,
      max_wait : 0..MaxWaitBound,
      output_format : {"hex", "url", "pcm"} ]

DispatchGe(cfg) ==
    IF cfg.async_enabled /\ cfg.text_len >= cfg.async_threshold THEN "async"
    ELSE IF cfg.stream_enabled THEN "stream"
    ELSE "sync"

\* auto_synthesize: the path chosen for a configuration and a text.
Dispatch(cfg) ==
    IF cfg.async_enabled /\ cfg.text_len > cfg.async_threshold THEN "async"
    ELSE IF cfg.stream_enabled THEN "stream"
    ELSE "sync"

SynConfigs ==
    { cfg \in SynConfigsAll :
        /\ (Dispatch(cfg) # "sync" => cfg.max_retries = 0 /\ cfg.retry_delay = 1)
        /\ (Dispatch(cfg) # "async" => cfg.poll_interval = 1 /\ cfg.max_wait = 0)
        /\ (Dispatch(cfg) = "stream" => cfg.output_format = "hex") }

\* What the remote service (or the transport) answers to a POST of synthesize
\* or to the submission of synthesize_async.
PostResponses ==
    [kind : {"timeout", "client_error", "exception", "http_error"}, code : {0}, audio : {"none"}]
    \cup [kind : {"json"}, code : {1001, 1002, 1004, 1008, 2013}, audio : {"none"}]
    \cup [kind : {"json"}, code : {0}, audio : {"hex", "badhex", "none"}]

\* _process_audio_response, and the same lines inlined in synthesize
\* (src/api_client.py:280-295): the result for a non-empty audio value.
ProcessAudio(cfg, audio) ==
    IF cfg.output_format = "hex"
      THEN IF audio = "hex" THEN "file" ELSE "none"
    ELSE IF cfg.output_format = "url" THEN "url"
    ELSE "none"

SyncOutcomeRetryAll(r, attempt, cfg) ==
    IF r.kind \in {"http_error", "timeout", "client_error"}
      THEN IF attempt < cfg.max_retries THEN "sleep" ELSE "next"
    ELSE IF r.kind = "exception" THEN "none"
    ELSE IF r.code # 0
      THEN IF attempt < cfg.max_retries THEN "sleep" ELSE "none"
    ELSE IF r.audio = "none" THEN "none"
    ELSE ProcessAudio(cfg, r.audio)

SyncOutcomeSleepLast(r, attempt, cfg) ==
    IF r.kind \in {"http_error", "timeout", "client_error"}
      THEN "sleep"
    ELSE IF r.kind = "exception" THEN "none"
    ELSE IF r.code # 0
      THEN IF r.code \in FATAL_ERROR_CODES THEN "none"
           ELSE IF r.code \in RETRYABLE_ERROR_CODES /\ attempt < cfg.max_retries THEN "sleep"
           ELSE "none"
    ELSE IF r.audio = "none" THEN "none"
    ELSE ProcessAudio(cfg, r.audio)

\* synthesize, one pass of the loop body after the POST was answered with r:
\*   "sleep"  back off, then the next attempt      "next"  no backoff, the loop goes on
\*   "none"   return None                          "file"/"url"  return it
SyncOutcome(r, attempt, cfg) ==
    IF r.kind \in {"http_error", "timeout", "client_error"}
      THEN IF attempt < cfg.max_retries THEN "sleep" ELSE "next"
    ELSE IF r.kind = "exception" THEN "none"
    ELSE IF r.code # 0
      THEN IF r.code \in FATAL_ERROR_CODES THEN "none"
           ELSE IF r.code \in RETRYABLE_ERROR_CODES /\ attempt < cfg.max_retries THEN "sleep"
           ELSE "none"
    ELSE IF r.audio = "none" THEN "none"
    ELSE ProcessAudio(cfg, r.audio)

\* synthesize: the backoff after failed attempt k, retry_delay * (2 ** (k - 1))
Backoff(cfg, attempt) == cfg.retry_delay * Pow2(attempt - 1)

\* A response on the asynchronous path, remembered with the request it answers.
NoLast ==
    [of |-> "none", kind |-> "", code |-> 0, audio |-> "none", url |-> FALSE, top |-> "",
     data |-> "", task |-> FALSE]

InitSyn ==
    /\ sy_cfg \in SynConfigs
    /\ sy_pc = "start"
    /\ sy_path = "none"
    /\ sy_attempt = 0
    /\ sy_elapsed = 0
    /\ sy_granted = FALSE
    /\ sy_reqs = <<>>
    /\ sy_resps = <<>>
    /\ sy_last = NoLast
    /\ sy_sleeps = <<>>
    /\ sy_result = "pending"
    /\ sy_file = <<>>

IdleSyn ==
    /\ sy_cfg = CHOOSE cfg \in SynConfigs : TRUE
    /\ sy_pc = "start"
    /\ sy_path = "none"
    /\ sy_attempt = 0
    /\ sy_elapsed = 0
    /\ sy_granted = FALSE
    /\ sy_reqs = <<>>
    /\ sy_resps = <<>>
    /\ sy_last = NoLast
    /\ sy_sleeps = <<>>
    /\ sy_result = "pending"
    /\ sy_file = <<>>

\* The call returns.
SynReturn(res) ==
    /\ sy_pc' = "done"
    /\ sy_result' = res

\* An HTTP request leaves the client; it uses up the grant, if there is one.
SynSend(kind) ==
    /\ sy_reqs' = Append(sy_reqs, [kind |-> kind, granted |-> sy_granted])
    /\ sy_granted' = FALSE

\* auto_synthesize up to the first suspension point of the path it chooses:
\* the credential check, then the loop header of synthesize or the
\* rate_limiter.acquire() of the other two paths.
AutoSynthesize ==
    /\ sy_pc = "start"
    /\ sy_path' = Dispatch(sy_cfg)
    /\ IF ~sy_cfg.creds
         THEN SynReturn("none") /\ UNCHANGED sy_attempt
       ELSE IF Dispatch(sy_cfg) = "sync"
         THEN IF sy_cfg.max_retries >= 1
                THEN sy_pc' = "sync_acquire" /\ sy_attempt' = 1 /\ UNCHANGED sy_result
                ELSE SynReturn("none") /\ UNCHANGED sy_attempt
       ELSE IF Dispatch(sy_cfg) = "stream"
         THEN sy_pc' = "stream_acquire" /\ UNCHANGED <<sy_attempt, sy_result>>
       ELSE sy_pc' = "async_acquire" /\ UNCHANGED <<sy_attempt, sy_result>>
    /\ UNCHANGED <<sy_last, sy_cfg, sy_elapsed, sy_granted, sy_reqs, sy_resps, sy_sleeps, sy_file>>
    /\ SynFrame

\* await rate_limiter.acquire() returns (synthesize line 239, synthesize_stream
\* line 355, synthesize_async line 473).
SynAcquire ==
    /\ sy_pc \in {"sync_acquire", "stream_acquire", "async_acquire"}
    /\ sy_granted' = TRUE
    /\ sy_pc' = CASE sy_pc = "sync_acquire" -> "sync_post"
                  [] sy_pc = "stream_acquire" -> "stream_post"
                  [] sy_pc = "async_acquire" -> "async_post"
    /\ UNCHANGED <<sy_last, sy_cfg, sy_path, sy_attempt, sy_elapsed, sy_reqs, sy_resps, sy_sleeps,
                   sy_result, sy_file>>
    /\ SynFrame

\* synthesize: session.post and the handling of its answer, up to the backoff
\* sleep, the next attempt's acquire, or the return.
SyncPost ==
    /\ sy_pc = "sync_post"
    /\ \E r \in PostResponses :
         LET o == SyncOutcome(r, sy_attempt, sy_cfg) IN
         /\ SynSend("post")
         /\ sy_resps' = Append(sy_resps, r)
         /\ CASE o = "sleep" ->
                   /\ sy_sleeps' = Append(sy_sleeps, Backoff(sy_cfg, sy_attempt))
                   /\ sy_pc' = "sync_sleep"
                   /\ UNCHANGED <<sy_attempt, sy_result, sy_file>>
              [] o = "next" ->
                   \* the last attempt: the loop ends, "return None" follows it
                   /\ SynReturn("none")
                   /\ UNCHANGED <<sy_attempt, sy_sleeps, sy_file>>
              [] o = "file" ->
                   /\ SynReturn("file")
                   /\ sy_file' = <<"a">>
                   /\ UNCHANGED <<sy_attempt, sy_sleeps>>
              [] OTHER ->
                   /\ SynReturn(o)
                   /\ UNCHANGED <<sy_attempt, sy_sleeps, sy_file>>
    /\ UNCHANGED <<sy_last, sy_cfg, sy_path, sy_elapsed>>
    /\ SynFrame

\* synthesize: the backoff sleep is over; the loop goes to the next attempt
\* (a sleep is only ever started when attempt < max_retries).
SyncWake ==
    /\ sy_pc = "sync_sleep"
    /\ IF sy_attempt < sy_cfg.max_retries
         THEN sy_pc' = "sync_acquire" /\ sy_attempt' = sy_attempt + 1 /\ UNCHANGED sy_result
         ELSE SynReturn("none") /\ UNCHANGED sy_attempt
    /\ UNCHANGED <<sy_last, sy_cfg, sy_path, sy_elapsed, sy_granted, sy_reqs, sy_resps, sy_sleeps,
                   sy_file>>
    /\ SynFrame

\* The lines of one SSE response body, by what the parser makes of them.
LineKinds == {"other", "badjson", "error", "a", "b", "badhex", "noaudio"}

RECURSIVE SeqsUpTo(_, _)
SeqsUpTo(S, n) ==
    IF n = 0 THEN {<<>>}
    ELSE LET shorter == SeqsUpTo(S, n - 1) IN
         shorter \cup {Append(s, x) : s \in shorter, x \in S}

StreamResponses ==
    [kind : {"timeout", "exception", "http_error"}, lines : {<<>>}, broken : {FALSE}]
    \cup [kind : {"stream"}, lines : SeqsUpTo(LineKinds, MaxEvents), broken : BOOLEAN]

\* synthesize_stream, the loop over response.content: lines that are not
\* data: events or not JSON are skipped, an event with a non-zero status code
\* ends the call, an audio fragment is decoded and appended, an undecodable
\* one is skipped.
RECURSIVE StreamScan(_, _)
StreamScan(lines, chunks) ==
    IF lines = <<>> THEN [err |-> FALSE, chunks |-> chunks]
    ELSE LET l == Head(lines) IN
         IF l = "error" THEN [err |-> TRUE, chunks |-> chunks]
         ELSE IF l \in {"a", "b"} THEN StreamScan(Tail(lines), Append(chunks, l))
         ELSE StreamScan(Tail(lines), chunks)

\* synthesize_stream: session.post, the scan of the stream and the return.
StreamPost ==
    /\ sy_pc = "stream_post"
    /\ \E r \in StreamResponses :
         LET s == StreamScan(r.lines, <<>>) IN
         /\ SynSend("post")
         /\ IF r.kind = "stream" /\ ~s.err /\ ~r.broken /\ s.chunks # <<>>
              THEN SynReturn("file") /\ sy_file' = s.chunks
              ELSE SynReturn("none") /\ UNCHANGED sy_file
    /\ UNCHANGED <<sy_last, sy_cfg, sy_path, sy_attempt, sy_elapsed, sy_resps, sy_sleeps>>
    /\ SynFrame

\* What the submission of synthesize_async is answered with.
SubmitResponses ==
    [kind : {"timeout", "client_error", "exception", "http_error"}, code : {0},
     audio : {"none"}, task : {FALSE}]
    \cup [kind : {"json"}, code : {1001, 1004, 2013}, audio : {"none"}, task : {FALSE}]
    \cup [kind : {"json"}, code : {0}, audio : {"hex", "badhex"}, task : BOOLEAN]
    \cup [kind : {"json"}, code : {0}, audio : {"none"}, task : BOOLEAN]

SubmitOutcomeTaskFirst(r) ==
    IF r.kind # "json" \/ r.code # 0 THEN "none"
    ELSE IF r.task THEN "poll"
    ELSE IF r.audio # "none" THEN "audio"
    ELSE "none"

\* synthesize_async, the answer to the submission:
\*   "none"   return None        "audio"  the shared handler on the inline audio
\*   "poll"   go on to the polling loop
SubmitOutcome(r) ==
    IF r.kind # "json" \/ r.code # 0 THEN "none"
    ELSE IF r.audio # "none" THEN "audio"
    ELSE IF ~r.task THEN "none"
    ELSE "poll"

\* synthesize_async: the loop test "while elapsed < max_wait".
AsyncLoop(elapsed) ==
    IF ElapsedBelow(elapsed, sy_cfg)
      THEN sy_pc' = "poll_sleep" /\ UNCHANGED sy_result
      ELSE SynReturn("none")

\* synthesize_async: the submission and the handling of its answer.
AsyncPost ==
    /\ sy_pc = "async_post"
    /\ \E r \in SubmitResponses :
         /\ SynSend("post")
         /\ sy_last' = [NoLast EXCEPT !.of = "submit", !.kind = r.kind, !.code = r.code,
                                      !.audio = r.audio, !.task = r.task]
         /\ CASE SubmitOutcome(r) = "audio" ->
                   /\ SynReturn(ProcessAudio(sy_cfg, r.audio))
                   /\ sy_file' = IF ProcessAudio(sy_cfg, r.audio) = "file"
                                   THEN <<"a">> ELSE sy_file
              [] SubmitOutcome(r) = "poll" -> AsyncLoop(0) /\ UNCHANGED sy_file
              [] OTHER -> SynReturn("none") /\ UNCHANGED sy_file
    /\ sy_elapsed' = 0
    /\ UNCHANGED <<sy_cfg, sy_path, sy_attempt, sy_resps, sy_sleeps>>
    /\ SynFrame

\* synthesize_async: asyncio.sleep(poll_interval) is over, elapsed grows.
AsyncPollWake ==
    /\ sy_pc = "poll_sleep"
    /\ sy_sleeps' = Append(sy_sleeps, sy_cfg.poll_interval)
    /\ sy_elapsed' = sy_elapsed + sy_cfg.poll_interval
    /\ sy_pc' = "poll_get"
    /\ UNCHANGED <<sy_last, sy_cfg, sy_path, sy_attempt, sy_granted, sy_reqs, sy_resps, sy_result,
                   sy_file>>
    /\ SynFrame

\* What a task query is answered with. top is the response's "status", data
\* its "data.status".
PollResponses ==
    [kind : {"timeout", "client_error", "exception", "http_error"}, code : {0},
     audio : {"none"}, url : {FALSE}, top : {""}, data : {""}]
    \cup [kind : {"json"}, code : {2013}, audio : {"none"}, url : {FALSE},
          top : {"", "failed", "processing"}, data : {"", "error", "processing"}]
    \cup [kind : {"json"}, code : {0}, audio : {"hex", "badhex"}, url : BOOLEAN,
          top : {""}, data : {""}]
    \cup [kind : {"json"}, code : {0}, audio : {"none"}, url : {TRUE},
          top : {""}, data : {""}]
    \cup [kind : {"json"}, code : {0}, audio : {"none"}, url : {FALSE},
          top : {"", "processing"},
          data : {"", "processing", "pending", "running", "success"}]

PollOutcomeNoRetry(r) ==
    IF r.kind # "json" THEN "none"
    ELSE IF r.code # 0
      THEN IF (IF r.top # "" THEN r.top ELSE r.data) \in {"failed", "error"}
             THEN "none" ELSE "again"
    ELSE IF r.audio # "none" THEN "audio"
    ELSE IF r.url THEN "download"
    ELSE IF r.data \in {"processing", "pending", "running"} THEN "again"
    ELSE "none"

PollOutcomeWaitsOn(r) ==
    IF r.kind \in {"http_error", "client_error", "timeout"} THEN "again"
    ELSE IF r.kind = "exception" THEN "none"
    ELSE IF r.code # 0
      THEN IF (IF r.top # "" THEN r.top ELSE r.data) \in {"failed", "error"}
             THEN "none" ELSE "again"
    ELSE IF r.audio # "none" THEN "audio"
    ELSE IF r.url THEN "download"
    ELSE "again"

\* synthesize_async, one task query:
\*   "again"  continue with the loop test     "download"  fetch the audio url
\*   "none"   return None                     "audio"     the shared handler
PollOutcome(r) ==
    IF r.kind \in {"http_error", "client_error", "timeout"} THEN "again"
    ELSE IF r.kind = "exception" THEN "none"
    ELSE IF r.code # 0
      THEN IF (IF r.top # "" THEN r.top ELSE r.data) \in {"failed", "error"}
             THEN "none" ELSE "again"
    ELSE IF r.audio # "none" THEN "audio"
    ELSE IF r.url THEN "download"
    ELSE IF r.data \in {"processing", "pending", "running"} THEN "again"
    ELSE "none"

\* synthesize_async: session.get on the query url and the handling of its answer.
AsyncPollGet ==
    /\ sy_pc = "poll_get"
    /\ \E r \in PollResponses :
         LET o == PollOutcome(r) IN
         /\ SynSend("poll")
         /\ sy_last' = [NoLast EXCEPT !.of = "poll", !.kind = r.kind, !.code = r.code,
                                      !.audio = r.audio, !.url = r.url, !.top = r.top,
                                      !.data = r.data]
         /\ CASE o = "again" -> AsyncLoop(sy_elapsed) /\ UNCHANGED sy_file
              [] o = "download" -> sy_pc' = "download" /\ UNCHANGED <<sy_result, sy_file>>
              [] o = "audio" ->
                   /\ SynReturn(ProcessAudio(sy_cfg, r.audio))
                   /\ sy_file' = IF ProcessAudio(sy_cfg, r.audio) = "file"
                                   THEN <<"a">> ELSE sy_file
              [] OTHER -> SynReturn("none") /\ UNCHANGED sy_file
    /\ UNCHANGED <<sy_cfg, sy_path, sy_attempt, sy_elapsed, sy_resps, sy_sleeps>>
    /\ SynFrame

\* _download_audio: session.get on the audio url, then the cache file.
AsyncDownload ==
    /\ sy_pc = "download"
    /\ \E r \in {"ok", "http_error", "exception"} :
         /\ SynSend("download")
         /\ IF r = "ok"
              THEN SynReturn("file") /\ sy_file' = <<"a">>
              ELSE SynReturn("none") /\ UNCHANGED sy_file
    /\ UNCHANGED <<sy_last, sy_cfg, sy_path, sy_attempt, sy_elapsed, sy_resps, sy_sleeps>>
    /\ SynFrame

NextSyn ==
    \/ AutoSynthesize
    \/ SynAcquire
    \/ SyncPost
    \/ SyncWake
    \/ StreamPost
    \/ AsyncPost
    \/ AsyncPollWake
    \/ AsyncPollGet
    \/ AsyncDownload

(***************************************************************************)
(* Shared pending-TTS state, the request_voice_reply tool and the          *)
(* post-generation event handler                                           *)
(***************************************************************************)

\* The conversations (stream ids) and the absent one: no chat_stream, or an
\* empty stream_id.
Chats == {"c1", "c2"}
NoChat == ""

\* config_schema.VALID_EMOTIONS
VALID_EMOTIONS == {"happy", "sad", "angry", "fearful", "disgusted",
                   "surprised", "calm", "fluent", "whisper"}

NoneVal == "<None>"    \* Python's None
NoKey == "<no key>"    \* a dict without the key
NoField == "<no field>"

\* Emotion arguments tried: None, the empty string, a valid tag, a valid tag
\* with blanks around it, and a string that is no tag.
EmotionArgs == {NoneVal, "", "happy", " happy ", "shout"}

\* The emotions mark_tts_pending is called with directly.
MarkArgs == {NoneVal, "", "happy", "shout"}

\* str.strip on the emotion arguments.
Strip(s) == IF s = " happy " THEN "happy" ELSE s

\* Python truthiness of an optional string.
Truthy(s) == s # NoneVal /\ s # ""

MarkPendingKeep(st, chat, emotion) ==
    [ pend |-> st.pend \cup {chat},
      emo |-> IF Truthy(emotion) /\ emotion \in VALID_EMOTIONS
                THEN [st.emo EXCEPT ![chat] = emotion]
                ELSE st.emo ]

\* mark_tts_pending, the body under _lock.
MarkPending(st, chat, emotion) ==
    [ pend |-> st.pend \cup {chat},
      emo |-> IF Truthy(emotion) /\ emotion \in VALID_EMOTIONS
                THEN [st.emo EXCEPT ![chat] = emotion]
              ELSE IF emotion = NoneVal \/ emotion \notin VALID_EMOTIONS
                THEN [st.emo EXCEPT ![chat] = NoKey]
              ELSE st.emo ]

ConsumePendingNoClear(st, chat) ==
    IF chat \notin st.pend
      THEN [pend |-> st.pend, emo |-> st.emo, was |-> FALSE, e |-> NoneVal]
      ELSE [pend |-> st.pend,
            emo |-> [st.emo EXCEPT ![chat] = NoKey],
            was |-> TRUE,
            e |-> IF st.emo[chat] = NoKey THEN NoneVal ELSE st.emo[chat]]

ConsumePendingKeepsEmotion(st, chat) ==
    IF chat \notin st.pend
      THEN [pend |-> st.pend, emo |-> st.emo, was |-> FALSE, e |-> NoneVal]
      ELSE [pend |-> st.pend \ {chat},
            emo |-> st.emo,
            was |-> TRUE,
            e |-> IF st.emo[chat] = NoKey THEN NoneVal ELSE st.emo[chat]]

ConsumePendingKeepsFlag(st, chat) ==
    IF chat \notin st.pend
      THEN [pend |-> st.pend, emo |-> st.emo, was |-> FALSE, e |-> NoneVal]
      ELSE [pend |-> st.pend,
            emo |-> [st.emo EXCEPT ![chat] = NoKey],
            was |-> TRUE,
            e |-> IF st.emo[chat] = NoKey THEN NoneVal ELSE st.emo[chat]]

\* consume_tts_pending, the body under _lock: the state left behind and the
\* pair (was_pending, emotion) returned.
ConsumePending(st, chat) ==
    IF chat \notin st.pend
      THEN [pend |-> st.pend, emo |-> st.emo, was |-> FALSE, e |-> NoneVal]
      ELSE [pend |-> st.pend \ {chat},
            emo |-> [st.emo EXCEPT ![chat] = NoKey],
            was |-> TRUE,
            e |-> IF st.emo[chat] = NoKey THEN NoneVal ELSE st.emo[chat]]

CancelPendingFlagOnly(st, chat) == [pend |-> st.pend \ {chat}, emo |-> st.emo]

\* MiniMaxTTSTool.execute with enable = false, the body under _lock.
CancelPending(st, chat) ==
    [ pend |-> st.pend \ {chat},
      emo |-> [st.emo EXCEPT ![chat] = NoKey] ]

ChatState == [pend |-> ch_pend, emo |-> ch_emo]

\* The handler's configuration: random_voice_probability (in percent),
\* minimax.api_key and minimax.voice_id present or not, minimax.emotion.
\* Each value is drawn where execute reads it.
Probabilities == {-10, 0, 50}
Credentials == {"ok", "no_key", "no_voice"}
DefaultEmotions == {"", "sad"}

\* random.random(), in percent.
Draws == {0, 49, 50, 99}

\* What the reply holds: nothing, text, or only a bracketed annotation, which
\* the handler strips to the empty string.
ContentKinds == {"none", "text", "brackets"}

HIdle ==
    [ pc |-> "idle", chat |-> NoChat, content |-> "none",
      alw |-> FALSE, was |-> FALSE, emo |-> NoneVal, p |-> 0, draw |-> -1,
      trigger |-> "none", synth |-> FALSE, dflt |-> "", req_emo |-> NoField, sent |-> FALSE,
      blank |-> FALSE, cont |-> TRUE, raised |-> FALSE, reason |-> "" ]

InitChat ==
    /\ ch_pend = {}
    /\ ch_emo = [c \in Chats |-> NoKey]
    /\ ch_always = {}
    /\ ch_trues = [c \in Chats |-> 0]
    /\ h = HIdle

IdleChat == InitChat

\* A direct call of mark_tts_pending(chat, emotion).
Mark(c, e) ==
    /\ ch_pend' = MarkPending(ChatState, c, e).pend
    /\ ch_emo' = MarkPending(ChatState, c, e).emo
    /\ ch_trues' = [ch_trues EXCEPT ![c] = 0]
    /\ UNCHANGED <<ch_always, h>>
    /\ ChatFrame

\* The bookkeeping of one consume_tts_pending(c) call.
ConsumeEffect(c) ==
    LET r == ConsumePending(ChatState, c) IN
    /\ ch_pend' = r.pend
    /\ ch_emo' = r.emo
    /\ ch_trues' = IF r.was THEN [ch_trues EXCEPT ![c] = Min(2, @ + 1)] ELSE ch_trues

\* A call of consume_tts_pending(chat) by another handler invocation.
Consume(c) ==
    /\ ConsumeEffect(c)
    /\ UNCHANGED <<ch_always, h>>
    /\ ChatFrame

\* toggle_always_voice(chat) (the /voice_always command).
ToggleAlwaysAddOnly(always, c) == [always |-> always \cup {c}, ret |-> TRUE]

ToggleAlwaysEveryone(always, c) ==
    IF c \in always
      THEN [always |-> {}, ret |-> FALSE]
      ELSE [always |-> Chats, ret |-> TRUE]

\* toggle_always_voice: the set it leaves and the value it returns.
ToggleAlways(always, c) ==
    IF c \in always
      THEN [always |-> always \ {c}, ret |-> FALSE]
      ELSE [always |-> always \cup {c}, ret |-> TRUE]

Toggle(c) ==
    /\ ch_always' = ToggleAlways(ch_always, c).always
    /\ UNCHANGED <<ch_pend, ch_emo, ch_trues, h>>
    /\ ChatFrame

\* MiniMaxTTSTool.execute(enable, emotion) in conversation c (NoChat: without
\* a conversation context).
ToolExecute(c, enable, emotion) ==
    /\ c = NoChat => enable /\ emotion = NoneVal
    /\ IF c = NoChat
         THEN UNCHANGED <<ch_pend, ch_emo, ch_trues>>
       ELSE IF ~enable
         THEN /\ ch_pend' = CancelPending(ChatState, c).pend
              /\ ch_emo' = CancelPending(ChatState, c).emo
              /\ UNCHANGED ch_trues
       ELSE LET chosen == IF Strip(emotion) \in VALID_EMOTIONS THEN Strip(emotion) ELSE ""
                arg == IF chosen # "" THEN chosen ELSE NoneVal
            IN /\ ch_pend' = MarkPending(ChatState, c, arg).pend
               /\ ch_emo' = MarkPending(ChatState, c, arg).emo
               /\ ch_trues' = [ch_trues EXCEPT ![c] = 0]
    /\ UNCHANGED <<ch_always, h>>
    /\ ChatFrame

TriggerLe(alw, was, p, draw) ==
    IF alw THEN "always"
    ELSE IF was THEN "flag"
    ELSE IF draw <= p THEN "random"
    ELSE "none"

\* MiniMaxTTSEventHandler.execute, lines 49-74: which trigger, if any, makes
\* the reply spoken. alw is what is_always_voice returned, was what
\* consume_tts_pending returned, draw is random.random().
Trigger(alw, was, p, draw) ==
    IF alw THEN "always"
    ELSE IF was THEN "flag"
    ELSE IF p > 0 /\ draw < p THEN "random"
    ELSE "none"

RequestEmotionNoDefault(override, default) ==
    IF Truthy(override) THEN override ELSE NoField

\* _build_request_body, lines 98-100: the emotion field of voice_setting.
\*   emotion = override_emotion or get_config("minimax.emotion", None)
\*   if emotion: voice_setting["emotion"] = emotion
RequestEmotion(override, default) ==
    IF Truthy(override) THEN override
    ELSE IF Truthy(default) THEN default
    ELSE NoField

HResultBlankOnError(kind) ==
    IF kind \in {"sent", "error"}
      THEN [cont |-> FALSE, blank |-> TRUE, raised |-> FALSE]
      ELSE [cont |-> TRUE, blank |-> FALSE, raised |-> FALSE]

HResultBlankOnFailure(kind) ==
    IF kind \in {"sent", "synth_failed"}
      THEN [cont |-> FALSE, blank |-> TRUE, raised |-> FALSE]
      ELSE [cont |-> TRUE, blank |-> FALSE, raised |-> FALSE]

\* MiniMaxTTSEventHandler.execute: what the handler hands back to the host for
\* each way of ending. cont is the tuple's second element (continue with the
\* text delivery), blank is modify_llm_response_content(""), raised is an
\* exception escaping execute.
HResult(kind) ==
    IF kind = "sent"
      THEN [cont |-> FALSE, blank |-> TRUE, raised |-> FALSE]
      ELSE [cont |-> TRUE, blank |-> FALSE, raised |-> FALSE]

\* The handler returns in the way named by kind.
HDone(rec, kind) ==
    [rec EXCEPT !.pc = "done", !.reason = kind,
                !.cont = HResult(kind).cont,
                !.blank = HResult(kind).blank,
                !.raised = HResult(kind).raised]

\* execute is called with a message; lines 42-47.
HBegin ==
    /\ h.pc = "idle"
    /\ \E content \in ContentKinds, c \in Chats \cup {NoChat} :
         LET rec == [HIdle EXCEPT !.chat = c, !.content = content] IN
         h' = IF content = "none" THEN HDone(rec, "no_content")
              ELSE IF c = NoChat THEN HDone(rec, "no_stream")
              ELSE [rec EXCEPT !.pc = "always"]
    /\ UNCHANGED <<ch_pend, ch_emo, ch_always, ch_trues>>
    /\ ChatFrame

\* await is_always_voice(stream_id), line 54.
HAlways ==
    /\ h.pc = "always"
    /\ h' = [h EXCEPT !.pc = "consume", !.alw = (h.chat \in ch_always)]
    /\ UNCHANGED <<ch_pend, ch_emo, ch_always, ch_trues>>
    /\ ChatFrame

\* await consume_tts_pending(stream_id) (line 57 or 62), the random draw, the
\* stripping of the text and the credential checks, up to the call of
\* auto_synthesize; lines 55-104.
HConsume ==
    /\ h.pc = "consume"
    /\ ConsumeEffect(h.chat)
    /\ \E p \in Probabilities, d \in Draws, creds \in Credentials, dflt \in DefaultEmotions :
         LET r == ConsumePending(ChatState, h.chat)
             asked == ~h.alw /\ ~r.was          \* the probability is read
             trig == Trigger(h.alw, r.was, p, d)
             rec == [h EXCEPT !.was = r.was, !.emo = r.e, !.trigger = trig,
                              !.p = IF asked THEN p ELSE 0,
                              !.draw = IF asked /\ p > 0 THEN d ELSE -1]
         IN h' = IF trig = "none" THEN HDone(rec, "not_triggered")
                 ELSE IF h.content = "brackets" THEN HDone(rec, "empty_text")
                 ELSE IF creds = "no_key" THEN HDone(rec, "no_key")
                 ELSE IF creds = "no_voice" THEN HDone(rec, "no_voice")
                 ELSE [rec EXCEPT !.pc = "synth", !.synth = TRUE, !.dflt = dflt,
                                  !.req_emo = RequestEmotion(r.e, dflt)]
    /\ UNCHANGED ch_always
    /\ ChatFrame

\* client.auto_synthesize returns a path, returns None, or something on the
\* way raises; lines 101-106, 122-128.
HSynth ==
    /\ h.pc = "synth"
    /\ \E o \in {"audio", "none", "raise"} :
         h' = IF o = "audio" THEN [h EXCEPT !.pc = "send"]
              ELSE IF o = "none" THEN HDone(h, "synth_failed")
              ELSE HDone(h, "error")
    /\ UNCHANGED <<ch_pend, ch_emo, ch_always, ch_trues>>
    /\ ChatFrame

\* touch_voice and send_api.custom_to_stream return and the reply text is
\* blanked, or one of the two calls raises; lines 107-121, 126-128.
HSend ==
    /\ h.pc = "send"
    /\ \E o \in {"ok", "raise"} :
         h' = IF o = "ok" THEN HDone([h EXCEPT !.sent = TRUE], "sent")
              ELSE HDone(h, "error")
    /\ UNCHANGED <<ch_pend, ch_emo, ch_always, ch_trues>>
    /\ ChatFrame

\* The host is done with this reply; the next one may come.
HReset ==
    /\ h.pc = "done"
    /\ h' = HIdle
    /\ UNCHANGED <<ch_pend, ch_emo, ch_always, ch_trues>>
    /\ ChatFrame

NextChat ==
    \/ \E c \in Chats, e \in MarkArgs : Mark(c, e)
    \/ \E c \in Chats : Consume(c)
    \/ \E c \in Chats : Toggle(c)
    \/ \E c \in Chats \cup {NoChat}, enable \in BOOLEAN, e \in EmotionArgs : ToolExecute(c, enable, e)
    \/ HBegin
    \/ HAlways
    \/ HConsume
    \/ HSynth
    \/ HSend
    \/ HReset

(***************************************************************************)
(* VoiceCloneManager: the registry, its cache and its backing file         *)
(***************************************************************************)

\* Bound of the registry model.
NumRegTasks == 2       \* concurrent callers of the manager

RegTasks == 1..NumRegTasks

VoiceIds == {"v1", "v2"}

\* Python values of a record's fields: a str, an int, or None.
PyStr(s) == [t |-> "str", v |-> s]
PyInt(s) == [t |-> "int", v |-> s]
PyNone == [t |-> "none", v |-> ""]

Fields == {"created_at", "last_used_at", "prompt_text", "file_id"}

\* A record the clone commands build (clone_commands.py:142-151): stamped d,
\* with the prompt text pt.
Info(d, pt) ==
    [f \in Fields |->
       CASE f = "created_at" -> PyStr(d)
         [] f = "last_used_at" -> PyStr(d)
         [] f = "prompt_text" -> pt
         [] f = "file_id" -> PyInt("7")]

\* The prompt text is None or what the user typed, here the word null; the
\* stamp is a week old (d0) or today's (d1).
Infos == {Info("d0", PyNone), Info("d0", PyStr("null")), Info("d1", PyNone)}

EmptyReg == <<>>

JsonDumpUnquoted(val) ==
    IF val.t = "none" THEN [q |-> FALSE, s |-> "null"] ELSE [q |-> FALSE, s |-> val.v]

\* json.dump of one field value: a str is written between quotes, an int as
\* its digits, None as null.
JsonDump(val) ==
    CASE val.t = "str" -> [q |-> TRUE, s |-> val.v]
      [] val.t = "int" -> [q |-> FALSE, s |-> val.v]
      [] val.t = "none" -> [q |-> FALSE, s |-> "null"]

\* json.load of one token.
JsonLoad(tok) ==
    IF tok.q THEN PyStr(tok.s)
    ELSE IF tok.s = "null" THEN PyNone
    ELSE PyInt(tok.s)

\* _save_sync: json.dump(voices, f), the whole registry.
EncodeReg(reg) == [id \in DOMAIN reg |-> [f \in Fields |-> JsonDump(reg[id][f])]]

DecodeReg(data) == [id \in DOMAIN data |-> [f \in Fields |-> JsonLoad(data[id][f])]]

\* _load_sync: {} when the file is missing or cannot be parsed.
LoadSync(file) == IF file.kind = "json" THEN DecodeReg(file.data) ELSE EmptyReg

\* _load: the cache when there is one, the file otherwise.
RegLoad == IF rg_loaded THEN rg_mem ELSE LoadSync(rg_file)

RegPutOnly(reg, id, info) == [x \in {id} |-> info]

\* add_voice: voices[voice_id] = info
RegPut(reg, id, info) ==
    [x \in DOMAIN reg \cup {id} |-> IF x = id THEN info ELSE reg[x]]

\* remove_voice: del voices[voice_id]
RegDel(reg, id) == [x \in DOMAIN reg \ {id} |-> reg[x]]

\* touch_voice: voices[voice_id]["last_used_at"] = datetime.now().isoformat()
RegTouched(reg, id) == [reg EXCEPT ![id]["last_used_at"] = PyStr("d1")]

\* datetime.fromisoformat of the stamps in use, as a day number: d0 is ten
\* days old, d3, d4 and d9 are seven, six and one day old, d1 is today, z0 is
\* ten days old and carries a UTC offset; anything else does not parse (-1
\* stands for ValueError).
Today == 10
WarnDays == 6
FromIso(s) ==
    CASE s = "d0" -> 0 [] s = "d3" -> 3 [] s = "d4" -> 4 [] s = "d9" -> 9
      [] s = "d1" -> Today [] s = "z0" -> 0 [] OTHER -> -1

\* The stamps that parse to an offset-aware datetime.
Aware(s) == s = "z0"

\* A key the dict does not hold.
PyAbsent == [t |-> "absent", v |-> ""]

\* info.get(key, default)
DictGet(info, key, default) == IF info[key].t = "absent" THEN default ELSE info[key]

\* Python's "not val"
Falsy(val) ==
    \/ val.t = "none"
    \/ val.t = "str" /\ val.v = ""
    \/ val.t = "int" /\ val.v = "0"

\* "created_at < cutoff" between an offset-aware and a naive datetime raises
\* TypeError, which the loop passes over as it does ValueError.
ExpiredAwareCompared(info, warn) ==
    LET c == DictGet(info, "created_at", PyStr(""))
    IN  /\ ~Falsy(c)
        /\ c.t = "str"
        /\ FromIso(c.v) >= 0
        /\ FromIso(c.v) < Today - warn

\* check_expired_voices, one record: no stamp or an empty one is skipped, one
\* that is not a str, does not parse or cannot be compared with the naive
\* cutoff is passed over, else created_at < cutoff.
ExpiredBy(info, warn) ==
    LET c == DictGet(info, "created_at", PyStr(""))
    IN  /\ ~Falsy(c)
        /\ c.t = "str"
        /\ FromIso(c.v) >= 0
        /\ ~Aware(c.v)
        /\ FromIso(c.v) < Today - warn

\* The default warn_days.
Expired(info) == ExpiredBy(info, WarnDays)

\* What a call returns: a bool, a copy of the registry, or a list of ids
\* (None is NoRet).
NoRet == [b |-> FALSE, reg |-> EmptyReg, ids |-> {}]

\* The body of each call between _load and _save: the registry it leaves in
\* memory, whether it goes on to _save, and what it returns if it does not.
GetVoices(reg) == [mem |-> reg, save |-> FALSE, ret |-> [NoRet EXCEPT !.reg = reg]]

VoiceExists(reg, id) ==
    [mem |-> reg, save |-> FALSE, ret |-> [NoRet EXCEPT !.b = (id \in DOMAIN reg)]]

AddVoice(reg, id, info) == [mem |-> RegPut(reg, id, info), save |-> TRUE, ret |-> NoRet]

RemoveVoice(reg, id) ==
    IF id \notin DOMAIN reg
      THEN [mem |-> reg, save |-> FALSE, ret |-> NoRet]
      ELSE [mem |-> RegDel(reg, id), save |-> TRUE, ret |-> NoRet]

TouchVoice(reg, id) ==
    IF id \in DOMAIN reg
      THEN [mem |-> RegTouched(reg, id), save |-> TRUE, ret |-> NoRet]
      ELSE [mem |-> reg, save |-> FALSE, ret |-> NoRet]

CheckExpiredBy(reg, warn) ==
    [mem |-> reg, save |-> FALSE,
     ret |-> [NoRet EXCEPT !.ids = {id \in DOMAIN reg : ExpiredBy(reg[id], warn)}]]

CheckExpired(reg) ==
    [mem |-> reg, save |-> FALSE,
     ret |-> [NoRet EXCEPT !.ids = {id \in DOMAIN reg : Expired(reg[id])}]]

NoInfo == [f \in Fields |-> PyNone]

\* The calls a task can make.
RegCalls ==
    {[op |-> op, id |-> "", info |-> NoInfo] : op \in {"get", "expired"}}
    \cup {[op |-> op, id |-> id, info |-> NoInfo] :
            op \in {"exists", "remove", "touch"}, id \in VoiceIds}
    \cup {[op |-> "add", id |-> id, info |-> info] : id \in VoiceIds, info \in Infos}

RegEffect(c, reg) ==
    CASE c.op = "get" -> GetVoices(reg)
      [] c.op = "exists" -> VoiceExists(reg, c.id)
      [] c.op = "add" -> AddVoice(reg, c.id, c.info)
      [] c.op = "remove" -> RemoveVoice(reg, c.id)
      [] c.op = "touch" -> TouchVoice(reg, c.id)
      [] c.op = "expired" -> CheckExpired(reg)

\* _save_sync in the executor:
\*   "ok"          the file holds the dump, True
\*   "fail_open"   open(..., "w") raised: the file is as before, False
\*   "fail_write"  the dump raised after open truncated the file: False
SaveOutcomes == {"ok", "fail_open", "fail_write"}

SaveFileMerged(file, mem, o) ==
    CASE o = "ok" -> [kind |-> "json",
                      data |-> [id \in DOMAIN file.data \cup DOMAIN mem |->
                                  IF id \in DOMAIN mem THEN EncodeReg(mem)[id] ELSE file.data[id]]]
      [] o = "fail_open" -> file
      [] o = "fail_write" -> [kind |-> "corrupt", data |-> EmptyReg]

SaveFile(file, mem, o) ==
    CASE o = "ok" -> [kind |-> "json", data |-> EncodeReg(mem)]
      [] o = "fail_open" -> file
      [] o = "fail_write" -> [kind |-> "corrupt", data |-> EmptyReg]

\* add_voice and remove_voice return what _save returned, touch_voice None.
SaveRet(c, o) == IF c.op \in {"add", "remove"} THEN [NoRet EXCEPT !.b = (o = "ok")] ELSE NoRet

\* One call run alone on the registry s, its write ending as o.
SeqApply(s, c, o) ==
    LET reg == IF s.loaded THEN s.mem ELSE LoadSync(s.file)
        e == RegEffect(c, reg)
    IN  [loaded |-> TRUE,
         mem |-> e.mem,
         file |-> IF e.save THEN SaveFile(s.file, e.mem, o) ELSE s.file,
         ret |-> IF e.save THEN SaveRet(c, o) ELSE e.ret]

NoCall == [op |-> "none", id |-> "", info |-> NoInfo]

TaskIdle == [pc |-> "idle", call |-> NoCall]

NoAdd == [ok |-> FALSE, id |-> "", reg |-> EmptyReg, fresh |-> FALSE, got |-> FALSE,
          ret |-> EmptyReg]

NoDone == [op |-> "none", id |-> "", b |-> FALSE, o |-> "none", kept |-> TRUE]

\* The file a process finds when it starts: none, one that does not parse, or
\* one written by an earlier run.
InitialFiles ==
    {[kind |-> "missing", data |-> EmptyReg], [kind |-> "corrupt", data |-> EmptyReg]}
    \cup {[kind |-> "json", data |-> EncodeReg(RegPut(EmptyReg, "v2", info))] : info \in Infos}

RegStart(file) ==
    /\ rg_loaded = FALSE
    /\ rg_mem = EmptyReg
    /\ rg_file = file
    /\ rg_lock = 0
    /\ rg_task = [k \in RegTasks |-> TaskIdle]
    /\ rg_add = NoAdd
    /\ rg_done = NoDone
    /\ rg_seq = [loaded |-> FALSE, mem |-> EmptyReg, file |-> file, agree |-> TRUE,
                 lastw |-> "none"]

InitReg == \E file \in InitialFiles : RegStart(file)

IdleReg == RegStart([kind |-> "missing", data |-> EmptyReg])

RegLockIgnored == TRUE

\* asyncio.Lock: "async with self._lock" goes on at once only when nobody
\* holds the lock and nobody waits for it.
RegLockFree == rg_lock = 0 /\ \A j \in RegTasks : rg_task[j].pc # "waiting"

\* How the manager's most recent file write ended, after a call whose write
\* ended as o ("none": the call wrote nothing): "none" before the first write,
\* "fail", "ok", or "ok_after_fail" for a write that succeeded where the one
\* before it had failed.
LastWrite(prev, o) ==
    IF o = "none" THEN prev
    ELSE IF o # "ok" THEN "fail"
    ELSE IF prev = "fail" THEN "ok_after_fail"
    ELSE "ok"

\* The call c of task k returns ret; o is how its write ended ("none" when
\* it wrote nothing).  The lock is released.
RegReturn(k, c, ret, o) ==
    /\ rg_lock' = 0
    /\ rg_task' = [rg_task EXCEPT ![k] = TaskIdle]
    /\ rg_done' = [op |-> c.op, id |-> c.id, b |-> ret.b, o |-> o, kept |-> (rg_file' = rg_file)]
    /\ LET s == SeqApply(rg_seq, c, o)
       IN  rg_seq' = [loaded |-> s.loaded, mem |-> s.mem, file |-> s.file,
                      agree |-> (ret = s.ret),
                      lastw |-> LastWrite(rg_seq.lastw, o)]

\* The body of call c of task k on the loaded registry reg, up to the return
\* or to _save's executor call.
RegRun(k, c, reg) ==
    LET e == RegEffect(c, reg)
    IN  /\ rg_loaded' = TRUE
        /\ rg_mem' = e.mem
        /\ UNCHANGED rg_file
        /\ IF e.save
             THEN /\ rg_lock' = k
                  /\ rg_task' = [rg_task EXCEPT ![k] =
                                   [pc |-> "saving", call |-> c,
                                    want |-> [x \in DOMAIN reg \cup {c.id} |->
                                                IF x = c.id THEN c.info ELSE reg[x]]]]
                  /\ rg_add' = NoAdd
                  /\ rg_done' = NoDone
                  /\ UNCHANGED rg_seq
             ELSE /\ RegReturn(k, c, e.ret, "none")
                  /\ rg_add' = IF c.op = "get" /\ rg_add.ok /\ rg_add.fresh
                                 THEN [rg_add EXCEPT !.got = TRUE, !.ret = e.ret.reg]
                                 ELSE rg_add

\* Call c of task k has the lock.  With the registry cached, _load does not
\* await and the body runs at once; otherwise the call awaits the executor
\* that reads the file.
RegLocked(k, c) ==
    IF rg_loaded
      THEN RegRun(k, c, rg_mem)
      ELSE /\ rg_lock' = k
           /\ rg_task' = [rg_task EXCEPT ![k] = [pc |-> "loading", call |-> c]]
           /\ rg_done' = NoDone
           /\ UNCHANGED <<rg_loaded, rg_mem, rg_file, rg_add, rg_seq>>

\* A task calls the manager and "async with self._lock" goes on at once.
RegCall(k, c) ==
    /\ rg_task[k].pc = "idle"
    /\ RegLockFree
    /\ RegLocked(k, c)
    /\ RegFrame

\* A task calls the manager and waits for the lock.  The arguments of a
\* waiting call play no part until it has the lock; they are drawn then.
RegWait(k) ==
    /\ rg_task[k].pc = "idle"
    /\ ~RegLockFree
    /\ rg_task' = [rg_task EXCEPT ![k] = [pc |-> "waiting", call |-> NoCall]]
    /\ UNCHANGED <<rg_loaded, rg_mem, rg_file, rg_lock, rg_add, rg_done, rg_seq>>
    /\ RegFrame

\* The lock was released and a waiting call gets it.
RegWake(k, c) ==
    /\ rg_task[k].pc = "waiting"
    /\ rg_lock = 0
    /\ RegLocked(k, c)
    /\ RegFrame

\* _load resumes: self._voices = what _load_sync read, then the body.
RegLoaded(k) ==
    /\ rg_task[k].pc = "loading"
    /\ RegRun(k, rg_task[k].call, LoadSync(rg_file))
    /\ RegFrame

\* _save resumes with _save_sync's result, the call returns.
RegSave(k) ==
    /\ rg_task[k].pc = "saving"
    /\ \E o \in SaveOutcomes :
         /\ rg_file' = SaveFile(rg_file, rg_mem, o)
         /\ RegReturn(k, rg_task[k].call, SaveRet(rg_task[k].call, o), o)
         /\ rg_add' = IF o = "ok" /\ rg_task[k].call.op = "add"
                        THEN [ok |-> TRUE, id |-> rg_task[k].call.id,
                              reg |-> rg_task[k].want,
                              fresh |-> FALSE, got |-> FALSE, ret |-> EmptyReg]
                        ELSE rg_add
    /\ UNCHANGED <<rg_loaded, rg_mem>>
    /\ RegFrame

\* The process restarts: a fresh VoiceCloneManager, nothing cached.
RegRestart ==
    /\ \A k \in RegTasks : rg_task[k].pc = "idle"
    /\ rg_loaded
    /\ rg_loaded' = FALSE
    /\ rg_mem' = EmptyReg
    /\ rg_add' = IF rg_add.ok THEN [rg_add EXCEPT !.fresh = TRUE] ELSE rg_add
    /\ rg_seq' = [rg_seq EXCEPT !.loaded = FALSE, !.mem = EmptyReg, !.lastw = "none"]
    /\ UNCHANGED <<rg_file, rg_lock, rg_task, rg_done>>
    /\ RegFrame

NextReg ==
    \/ \E k \in RegTasks, c \in RegCalls : RegCall(k, c)
    \/ \E k \in RegTasks : RegWait(k)
    \/ \E k \in RegTasks, c \in RegCalls : RegWake(k, c)
    \/ \E k \in RegTasks : RegLoaded(k)
    \/ \E k \in RegTasks : RegSave(k)
    \/ RegRestart

(***************************************************************************)
(* The commands                                                            *)
(***************************************************************************)

\* Bounds of the command model.
MaxCmds == 2           \* commands run in one behaviour
MaxVoices == 4         \* a batch starts only if the registry stays this small
MaxCounter == 6        \* the largest counter the batch command is followed to

CmdKinds == {"help", "minimax", "voice_always", "clone", "list_voices", "test_voice",
             "delete", "list_audio", "batch"}

\* HelpCommand.execute has no try block, every other execute has one.
HasTry(kind) == kind # "help"

\* The public methods of VoiceCloneManager (src/voice_clone.py).
ManagerMethods == {"get_voices", "voice_exists", "add_voice", "remove_voice", "touch_voice",
                   "check_expired_voices", "upload_audio", "clone_voice",
                   "delete_voice_remote", "delete_voice_full"}

\* send_text / send_custom of the host either return or raise.
SendOutcomes == {"ok", "raise"}

CmdIdle ==
    [pc |-> "idle", kind |-> "none", arg |-> "", items |-> <<>>, idx |-> 0, sc |-> 0,
     fc |-> 0, seen |-> <<>>, vs |-> {}, start |-> {}, ids |-> <<>>, listed |-> {},
     remote |-> "none", local |-> "none", full |-> "none",
     res |-> "none", icpt |-> FALSE, esc |-> FALSE, sraise |-> FALSE, sent |-> <<>>]

\* execute returns (ok, _, True).
CmdReturn(c, ok) ==
    [c EXCEPT !.pc = "done", !.res = IF ok THEN "ok" ELSE "fail", !.icpt = TRUE]

\* An exception inside execute: caught by "except Exception" where there is a
\* try block, out to the host otherwise.
CmdRaise(c) ==
    IF HasTry(c.kind) THEN [c EXCEPT !.pc = "except"] ELSE [c EXCEPT !.pc = "done", !.esc = TRUE]

\* await self.send_text(msg), then the command goes on as next.
CmdSend(c, msg, so, next) ==
    IF so = "ok" THEN [next EXCEPT !.sent = Append(c.sent, msg)]
    ELSE [CmdRaise(c) EXCEPT !.sraise = TRUE]

\* A manager call run by the command in flight, its write ending as o.
MgrResult(call, o) == SeqApply([loaded |-> rg_loaded, mem |-> rg_mem, file |-> rg_file], call, o)

MgrCall(call, o) ==
    LET s == MgrResult(call, o)
    IN  /\ rg_loaded' = s.loaded
        /\ rg_mem' = s.mem
        /\ rg_file' = s.file
        /\ rg_seq' = [loaded |-> s.loaded, mem |-> s.mem, file |-> s.file, agree |-> TRUE,
                      lastw |-> "none"]
        /\ UNCHANGED <<rg_lock, rg_task, rg_add, rg_done>>

\* The ids of the command model: what the batch command derives from a file
\* name.  re.sub keeps letters, digits, _ and -, "_cloned" is appended, and
\* "voice_" is put in front when the first character is not a letter.
BatchFiles == {"demo.mp3", "9.mp3"}

DerivedId(file) == CASE file = "demo.mp3" -> "demo_cloned" [] file = "9.mp3" -> "voice_9_cloned"

\* f"{original_voice_id}_{counter}"
WithCounter(base, n) ==
    CASE base = "demo_cloned" ->
           (CASE n = 1 -> "demo_cloned_1" [] n = 2 -> "demo_cloned_2"
              [] n = 3 -> "demo_cloned_3" [] n = 4 -> "demo_cloned_4"
              [] n = 5 -> "demo_cloned_5" [] OTHER -> "demo_cloned_6")
      [] base = "voice_9_cloned" ->
           (CASE n = 1 -> "voice_9_cloned_1" [] n = 2 -> "voice_9_cloned_2"
              [] n = 3 -> "voice_9_cloned_3" [] n = 4 -> "voice_9_cloned_4"
              [] n = 5 -> "voice_9_cloned_5" [] OTHER -> "voice_9_cloned_6")

\* The file the commands find: none, or a registry of earlier clones.
CmdInitialRegs ==
    {EmptyReg,
     RegPut(EmptyReg, "demo_cloned", Info("d0", PyNone)),
     RegPut(RegPut(EmptyReg, "demo_cloned", Info("d0", PyNone)),
            "demo_cloned_1", Info("d1", PyNone))}

InitCmd ==
    /\ cm = CmdIdle
    /\ cm_n = 0

IdleCmd == InitCmd

\* The host runs a command: /delete_voice with an id, /clone_voice_batch with
\* its list of files, the others with nothing the model looks at.
CmdArgs(kind) ==
    CASE kind = "delete" ->
           {[arg |-> a, items |-> <<>>] : a \in {"", "demo_cloned", "demo_cloned_1", "nobody"}}
      [] kind = "batch" ->
           {[arg |-> "", items |-> s] :
              s \in {<<"demo.mp3">>, <<"demo.mp3", "demo.mp3">>,
                     <<"demo.mp3", "9.mp3", "demo.mp3">>,
                     <<"demo.mp3", "demo.mp3", "demo.mp3">>}}
      [] kind = "voice_always" -> {[arg |-> a, items |-> <<>>] : a \in Chats \cup {NoChat}}
      [] OTHER -> {[arg |-> "", items |-> <<>>]}

CmdStart(kind, a) ==
    /\ cm.pc = "idle"
    /\ cm_n < MaxCmds
    /\ kind = "batch" => Cardinality(DOMAIN RegLoad) + Len(a.items) <= MaxVoices
    /\ cm' = [CmdIdle EXCEPT !.pc = "run", !.kind = kind, !.arg = a.arg, !.items = a.items]
    /\ cm_n' = cm_n + 1
    /\ UNCHANGED <<regVars, ch_always>>
    /\ CmdFrame

\* HelpCommand.execute: send the help text, return (True, _, True).
CmdHelp ==
    /\ cm.pc = "run"
    /\ cm.kind = "help"
    /\ \E so \in SendOutcomes : cm' = CmdSend(cm, "help", so, CmdReturn(cm, TRUE))
    /\ UNCHANGED <<cm_n, regVars, ch_always>>
    /\ CmdFrame

\* /minimax, /clone_voice, /test_voice, /list_audio: the body either raises,
\* or ends by sending one last message and returning its verdict.
CmdBody ==
    /\ cm.pc = "run"
    /\ cm.kind \in {"minimax", "clone", "test_voice", "list_audio"}
    /\ \E out \in {"ok", "fail", "raise"}, so \in SendOutcomes :
         cm' = IF out = "raise" THEN CmdRaise(cm)
               ELSE CmdSend(cm, out, so, CmdReturn(cm, out = "ok"))
    /\ UNCHANGED <<cm_n, regVars, ch_always>>
    /\ CmdFrame

\* VoiceAlwaysCommand.execute
CmdVoiceAlways ==
    /\ cm.pc = "run"
    /\ cm.kind = "voice_always"
    /\ \E so \in SendOutcomes :
         IF cm.arg = NoChat
           THEN /\ cm' = CmdSend(cm, "no chat", so, CmdReturn(cm, FALSE))
                /\ UNCHANGED ch_always
           ELSE LET r == ToggleAlways(ch_always, cm.arg)
                IN  /\ ch_always' = r.always
                    /\ cm' = CmdSend(cm, IF r.ret THEN "on" ELSE "off", so, CmdReturn(cm, TRUE))
    /\ UNCHANGED <<cm_n, regVars>>
    /\ CmdFrame

\* except Exception as e: await self.send_text(f"出错: {e}"); return False, str(e), True
CmdExcept ==
    /\ cm.pc = "except"
    /\ \E so \in SendOutcomes :
         cm' = IF so = "ok"
                 THEN [CmdReturn(cm, FALSE) EXCEPT !.sent = Append(cm.sent, "error")]
                 ELSE [cm EXCEPT !.pc = "done", !.esc = TRUE, !.sraise = TRUE]
    /\ UNCHANGED <<cm_n, regVars, ch_always>>
    /\ CmdFrame

\* The host has the result; the next command can start.
CmdReset ==
    /\ cm.pc = "done"
    /\ cm' = CmdIdle
    /\ UNCHANGED <<cm_n, regVars, ch_always>>
    /\ CmdFrame

Call(op, id, info) == [op |-> op, id |-> id, info |-> info]

BoolStr(b) == IF b THEN "true" ELSE "false"

\* delete_voice_remote: 200 with status_code 0, 200 with another status code,
\* another HTTP status, or an exception, which it catches.
RemoteOutcomes == {"ok", "status", "http", "raise"}

DeleteFullBoth(remote, local) == remote = "ok" /\ local

\* delete_voice_full: await delete_voice_remote(...); return await remove_voice(id)
DeleteFullResult(remote, local) == local

\* DeleteVoiceCommand.execute up to the call of delete_voice_full.
CmdDeleteCheck ==
    /\ cm.pc = "run"
    /\ cm.kind = "delete"
    /\ \E so \in SendOutcomes :
         IF cm.arg = ""
           THEN /\ cm' = CmdSend(cm, "no id", so, CmdReturn(cm, FALSE))
                /\ UNCHANGED regVars
           ELSE /\ MgrCall(Call("exists", cm.arg, NoInfo), "none")
                /\ cm' = IF MgrResult(Call("exists", cm.arg, NoInfo), "none").ret.b
                           THEN [cm EXCEPT !.pc = "remote"]
                           ELSE CmdSend(cm, "unknown id", so, CmdReturn(cm, FALSE))
    /\ UNCHANGED <<cm_n, ch_always>>
    /\ CmdFrame

\* delete_voice_full, first line: the remote deletion, whose result is dropped.
CmdDeleteRemote ==
    /\ cm.pc = "remote"
    /\ \E ro \in RemoteOutcomes : cm' = [cm EXCEPT !.pc = "local", !.remote = ro]
    /\ UNCHANGED <<cm_n, regVars, ch_always>>
    /\ CmdFrame

\* delete_voice_full, second line: remove_voice; then the command reports.
CmdDeleteLocal ==
    /\ cm.pc = "local"
    /\ \E o \in SaveOutcomes, so \in SendOutcomes :
         LET r == MgrResult(Call("remove", cm.arg, NoInfo), o).ret.b
             full == DeleteFullResult(cm.remote, r)
             c == [cm EXCEPT !.local = BoolStr(r), !.full = BoolStr(full)]
         IN  /\ MgrCall(Call("remove", cm.arg, NoInfo), o)
             /\ cm' = CmdSend(c, IF full THEN "deleted" ELSE "delete failed", so,
                              CmdReturn(c, full))
    /\ UNCHANGED <<cm_n, ch_always>>
    /\ CmdFrame

\* ListVoicesCommand.execute: get_voices; the nothing-cloned message for an
\* empty registry; else the listing is built and mgr.check_unactivated_voices()
\* is called, which raises AttributeError when the manager has no such method.
CmdListVoices ==
    /\ cm.pc = "run"
    /\ cm.kind = "list_voices"
    /\ MgrCall(Call("get", "", NoInfo), "none")
    /\ \E so \in SendOutcomes :
         LET voices == MgrResult(Call("get", "", NoInfo), "none").ret.reg
         IN  cm' = IF DOMAIN voices = {}
                     THEN CmdSend(cm, "nothing cloned", so, CmdReturn(cm, TRUE))
                   ELSE IF "check_unactivated_voices" \notin ManagerMethods
                     THEN CmdRaise(cm)
                   ELSE CmdSend(cm, "listing", so,
                                [CmdReturn(cm, TRUE) EXCEPT !.listed = DOMAIN voices])
    /\ UNCHANGED <<cm_n, ch_always>>
    /\ CmdFrame

\* The ids the batch command tries for one file, in order: B, B_1, B_2, ...
Candidate(base, n) == IF n = 0 THEN base ELSE WithCounter(base, n)

RECURSIVE Probe(_, _, _)
Probe(base, n, vs) ==
    IF Candidate(base, n) \in vs /\ n < MaxCounter
      THEN Probe(base, n + 1, vs)
      ELSE Candidate(base, n)

NextFreeIdNoProbe(base, vs) == base

\* while voice_id in voices: voice_id = f"{original_voice_id}_{counter}"; counter += 1
NextFreeId(base, vs) == Probe(base, 0, vs)

\* CloneVoiceBatchCommand.execute up to the loop.
CmdBatchBegin ==
    /\ cm.pc = "run"
    /\ cm.kind = "batch"
    /\ \E so1 \in SendOutcomes, so2 \in SendOutcomes, key \in {"ok", "missing"} :
         IF so1 = "raise" \/ key = "missing"
           THEN /\ cm' = IF so1 = "raise" THEN CmdSend(cm, "start", so1, cm)
                         ELSE CmdSend([cm EXCEPT !.sent = Append(@, "start")], "no key", so2,
                                      CmdReturn(cm, FALSE))
                /\ UNCHANGED regVars
           ELSE /\ MgrCall(Call("get", "", NoInfo), "none")
                /\ LET voices == MgrResult(Call("get", "", NoInfo), "none").ret.reg
                   IN  cm' = [cm EXCEPT !.pc = "items", !.sent = Append(@, "start"),
                                        !.vs = DOMAIN voices, !.start = DOMAIN voices]
    /\ UNCHANGED <<cm_n, ch_always>>
    /\ CmdFrame

\* What can happen to one item of the batch.
ItemOutcomes == {"unresolved", "send_raise", "upload_fail", "clone_fail", "raise", "ok"}

ItemFailedAbort(c) == [c EXCEPT !.fc = @ + 1, !.idx = Len(c.items)]

\* failed_count += 1, and the loop goes on with the next item.
ItemFailed(c) == [c EXCEPT !.fc = @ + 1, !.idx = @ + 1, !.seen = Append(@, c.idx + 1)]

\* One turn of the loop over the files.
CmdBatchItem ==
    /\ cm.pc = "items"
    /\ cm.idx < Len(cm.items)
    /\ \E out \in ItemOutcomes, o \in SaveOutcomes :
         LET id == NextFreeId(DerivedId(cm.items[cm.idx + 1]), cm.vs)
             told == [cm EXCEPT !.sent = Append(@, "progress")]
         IN  IF out = "ok"
               THEN /\ MgrCall(Call("add", id, Info("d1", PyNone)), o)
                    /\ cm' = [told EXCEPT !.sc = @ + 1, !.idx = @ + 1,
                                          !.seen = Append(@, cm.idx + 1),
                                          !.vs = @ \cup {id}, !.ids = Append(@, id)]
               ELSE /\ cm' = IF out \in {"unresolved", "send_raise"}
                               THEN ItemFailed(cm) ELSE ItemFailed(told)
                    /\ UNCHANGED regVars
    /\ UNCHANGED <<cm_n, ch_always>>
    /\ CmdFrame

\* After the loop: the tally is sent and the command returns success_count > 0.
CmdBatchTally ==
    /\ cm.pc = "items"
    /\ cm.idx >= Len(cm.items)
    /\ \E so \in SendOutcomes : cm' = CmdSend(cm, "tally", so, CmdReturn(cm, cm.sc > 0))
    /\ UNCHANGED <<cm_n, regVars, ch_always>>
    /\ CmdFrame

NextCmd ==
    \/ \E kind \in CmdKinds : \E a \in CmdArgs(kind) : CmdStart(kind, a)
    \/ CmdHelp
    \/ CmdBody
    \/ CmdVoiceAlways
    \/ CmdDeleteCheck
    \/ CmdDeleteRemote
    \/ CmdDeleteLocal
    \/ CmdListVoices
    \/ CmdBatchBegin
    \/ CmdBatchItem
    \/ CmdBatchTally
    \/ CmdExcept
    \/ CmdReset

(***************************************************************************)
(* check_expired_voices on registries of any content                       *)
(***************************************************************************)

\* What a record of the file can hold under created_at: nothing, null, an
\* empty str, a str that is no timestamp, a number, or a timestamp.
ExpiryStamps ==
    {PyAbsent, PyNone, PyStr(""), PyStr("garbage"), PyInt("7"),
     PyStr("d0"), PyStr("d3"), PyStr("d4"), PyStr("d9"), PyStr("z0")}

ExpiryInfo(stamp) == [Info("d1", PyNone) EXCEPT !["created_at"] = stamp]

\* The registries of at most two records over these stamps.
ExpiryRegs ==
    UNION {[ids -> {ExpiryInfo(s) : s \in ExpiryStamps}] : ids \in SUBSET VoiceIds}

\* The warn_days a caller passes: 0, the default, and a week.
WarnChoices == {0, WarnDays, 7}

ExIdle == [pc |-> "idle", reg |-> EmptyReg, warn |-> WarnDays, ret |-> {},
           after |-> EmptyReg, saved |-> FALSE]

InitExp ==
    \E reg \in ExpiryRegs, warn \in WarnChoices :
        ex = [ExIdle EXCEPT !.reg = reg, !.warn = warn, !.after = reg]

\* check_expired_voices(warn_days) on a loaded registry.
ExpCheck ==
    /\ ex.pc = "idle"
    /\ LET r == CheckExpiredBy(ex.reg, ex.warn)
       IN  ex' = [ex EXCEPT !.pc = "done", !.ret = r.ret.ids, !.after = r.mem,
                            !.saved = r.save]
    /\ ExFrame

NextExp == ExpCheck

(***************************************************************************)
(* cleanup_audio_cache (src/core/audio_utils.py)                           *)
(***************************************************************************)

CacheNames == {"a.mp3", "b.mp3"}

\* now - os.path.getmtime(filepath), in seconds: an hour, a day, a second
\* more than a day, 25 hours.
CacheAges == {3600, 86400, 86401, 90000}

\* An entry of the directory: a regular file or not, its age, and what the
\* operating system does with it: "ok", getmtime raises OSError, or
\* os.remove raises OSError (the file is in use or protected).
CacheEntries == [regular : BOOLEAN, age : CacheAges, os : {"ok", "mtime_err", "remove_err"}]

\* The directory is missing (exists = FALSE) or holds at most two entries.
CacheDirs ==
    {[exists |-> FALSE, files |-> <<>>]}
    \cup {[exists |-> TRUE, files |-> f] :
            f \in UNION {[ns -> CacheEntries] : ns \in SUBSET CacheNames}}

\* The max_age_hours a caller passes.
MaxAgeChoices == {0, 24, 25}

TooOldOrEqual(age, max_age_hours) == age >= max_age_hours * 3600

\* now - os.path.getmtime(filepath) > max_age_seconds
TooOld(age, max_age_hours) == age > max_age_hours * 3600

\* The entries the loop removes: regular files, too old, that the operating
\* system lets it stat and remove.
Removed(dir, max_age_hours) ==
    {n \in DOMAIN dir.files :
        /\ dir.files[n].regular
        /\ dir.files[n].os # "mtime_err"
        /\ TooOld(dir.files[n].age, max_age_hours)
        /\ dir.files[n].os # "remove_err"}

CcIdle == [pc |-> "idle", dir |-> [exists |-> FALSE, files |-> <<>>], max |-> 24,
           left |-> {}, count |-> 0]

InitCache ==
    \E dir \in CacheDirs, max \in MaxAgeChoices :
        cc = [CcIdle EXCEPT !.dir = dir, !.max = max, !.left = DOMAIN dir.files]

\* cleanup_audio_cache(max_age_hours): the whole of _cleanup.
Cleanup ==
    /\ cc.pc = "idle"
    /\ cc' = IF ~cc.dir.exists
               THEN [cc EXCEPT !.pc = "done", !.count = 0]
               ELSE [cc EXCEPT !.pc = "done",
                               !.left = DOMAIN cc.dir.files \ Removed(cc.dir, cc.max),
                               !.count = Cardinality(Removed(cc.dir, cc.max))]
    /\ CcFrame

NextCache == Cleanup

(***************************************************************************)
(* /clone_voice: CloneVoiceCommand.execute, several commands at a time     *)
(***************************************************************************)

NumCloneTasks == 2     \* /clone_voice commands that can be in flight together

CloneTasks == 1..NumCloneTasks

\* ord() of the characters the ids of the model are written with.
Ord(c) ==
    CASE c = "\n" -> 10 [] c = "-" -> 45 [] c = "." -> 46
      [] c = "0" -> 48 [] c = "1" -> 49 [] c = "9" -> 57
      [] c = "@" -> 64 [] c = "A" -> 65 [] c = "M" -> 77 [] c = "V" -> 86 [] c = "Z" -> 90
      [] c = "[" -> 91 [] c = "_" -> 95
      [] c = "a" -> 97 [] c = "c" -> 99 [] c = "e" -> 101 [] c = "i" -> 105
      [] c = "o" -> 111 [] c = "y" -> 121 [] c = "z" -> 122
      [] c = "é" -> 233

\* A character range lo-hi of a character class.
InRange(c, lo, hi) == Ord(lo) <= Ord(c) /\ Ord(c) <= Ord(hi)

\* [a-zA-Z]
ReFirst(c) == InRange(c, "a", "z") \/ InRange(c, "A", "Z")

\* [a-zA-Z0-9_-]
ReRest(c) ==
    \/ InRange(c, "a", "z") \/ InRange(c, "A", "Z") \/ InRange(c, "0", "9")
    \/ c = "_" \/ c = "-"

\* "$": the end of the string, or the place before a newline that ends it.
ReEnd(s, pos) == pos = Len(s) + 1 \/ (pos = Len(s) /\ s[pos] = "\n")

\* The bounds of the repetition {7,255}.
RepMin == 7
RepMax == 255

ValidIdAnyFirst(s) ==
    /\ Len(s) >= 1
    /\ ReRest(s[1])
    /\ \E n \in {m \in {Len(s) - 2, Len(s) - 1} : RepMin <= m /\ m <= RepMax} :
         /\ \A i \in 2..(n + 1) : ReRest(s[i])
         /\ ReEnd(s, n + 2)

\* re.match(r"^[a-zA-Z][a-zA-Z0-9_-]{7,255}$", voice_id): the first character,
\* then n characters of the second class, n from 7 to 255, up to where "$"
\* matches (so n is the length less one or, before a final newline, less two).
ValidId(s) ==
    /\ Len(s) >= 1
    /\ ReFirst(s[1])
    /\ \E n \in {m \in {Len(s) - 2, Len(s) - 1} : RepMin <= m /\ m <= RepMax} :
         /\ \A i \in 2..(n + 1) : ReRest(s[i])
         /\ ReEnd(s, n + 2)

\* A string of n characters: first, then fill, with bad (when not "") at pos.
Str(first, n, fill, bad, pos) ==
    [i \in 1..n |-> IF i = 1 THEN first
                    ELSE IF bad # "" /\ i = pos THEN bad
                    ELSE fill]

MyVoice1 == <<"M", "y", "V", "o", "i", "c", "e", "1">>

\* The ids a user types (the command pattern passes on a run of non-blank
\* characters): the examples, and strings of 1 to 257 characters that start
\* and go on with characters of either side of every class boundary.
ValidatorInputs ==
    {MyVoice1, <<"1", "V", "o", "i", "c", "e", "0", "1">>, <<"M", "y">>}
    \cup {Str(first, n, fill, bad, IF last THEN n ELSE 2) :
            first \in {"a", "z", "A", "Z", "0", "9", "_", "-", "[", "@", "é"},
            n \in {1, 2, 7, 8, 9, 255, 256, 257},
            fill \in {"a", "9", "_", "-"},
            bad \in {"", "[", "@", "é", "."},
            last \in BOOLEAN}

\* The ids of the commands that run together.
CloneIds == {MyVoice1, Str("a", 8, "9", "", 0)}

\* prompt: a prompt audio (with its text) was given; log: the requests the
\* command made to the remote service and to the registry, in order, each
\* with whether it succeeded.
ClTaskOff == [pc |-> "off", id |-> <<>>, prompt |-> FALSE, res |-> "none", why |-> "",
              ups |-> 0, cloned |-> FALSE, log |-> <<>>]

ClTaskIdle == [ClTaskOff EXCEPT !.pc = "idle"]

\* task: each command's position; stores: the add_voice calls made, in order;
\* reg0: the registry when the commands began.
ClIdle == [task |-> [k \in CloneTasks |-> ClTaskOff], stores |-> <<>>, reg0 |-> EmptyReg]

ClRegFile(reg) ==
    IF reg = EmptyReg THEN [kind |-> "missing", data |-> EmptyReg]
    ELSE [kind |-> "json", data |-> EncodeReg(reg)]

ClDone(k, ok, why) == [cl.task[k] EXCEPT !.pc = "done", !.res = IF ok THEN "ok" ELSE "fail",
                                         !.why = why]

\* A user sends /clone_voice <audio> <id>, with or without a prompt audio.
CloneStart(k, id, prompt) ==
    /\ cl.task[k].pc = "idle"
    /\ cl' = [cl EXCEPT !.task[k] = [@ EXCEPT !.pc = "validate", !.id = id, !.prompt = prompt]]
    /\ UNCHANGED regVars
    /\ ClFrame

\* The format check of the id; a rejected id is answered and the command ends.
CloneValidate(k) ==
    /\ cl.task[k].pc = "validate"
    /\ cl' = [cl EXCEPT !.task[k] =
                IF ValidId(cl.task[k].id) THEN [@ EXCEPT !.pc = "exists"]
                ELSE ClDone(k, FALSE, "format")]
    /\ UNCHANGED regVars
    /\ ClFrame

\* await mgr.voice_exists(voice_id)
CloneExists(k) ==
    /\ cl.task[k].pc = "exists"
    /\ LET c == Call("exists", cl.task[k].id, NoInfo)
       IN  /\ MgrCall(c, "ok")
           /\ cl' = [cl EXCEPT !.task[k] =
                       IF MgrResult(c, "ok").ret.b THEN ClDone(k, FALSE, "exists")
                       ELSE [@ EXCEPT !.pc = "resolve"]]
    /\ ClFrame

\* The paths are resolved, the prompt arguments and the API key checked.
CloneResolve(k) ==
    /\ cl.task[k].pc = "resolve"
    /\ \E out \in {"ok", "missing"} :
         cl' = [cl EXCEPT !.task[k] =
                  IF out = "ok" THEN [@ EXCEPT !.pc = "upload"]
                  ELSE ClDone(k, FALSE, "precheck")]
    /\ UNCHANGED regVars
    /\ ClFrame

ClLog(what, ok) == [what |-> what, ok |-> ok]

\* The progress message and await mgr.upload_audio(...) of the audio to
\* clone; "raise": the progress message could not be sent.
CloneUpload(k) ==
    /\ cl.task[k].pc = "upload"
    /\ \E out \in {"ok", "fail", "raise"} :
         cl' = [cl EXCEPT !.task[k] =
                  CASE out = "ok" ->
                         [@ EXCEPT !.pc = IF cl.task[k].prompt THEN "upload_prompt" ELSE "clone",
                                   !.ups = 1, !.log = Append(@, ClLog("upload_main", TRUE))]
                    [] out = "fail" ->
                         [ClDone(k, FALSE, "upload") EXCEPT
                            !.ups = 1, !.log = Append(@, ClLog("upload_main", FALSE))]
                    [] out = "raise" -> ClDone(k, FALSE, "except")]
    /\ UNCHANGED regVars
    /\ ClFrame

\* if prompt_audio: the progress message and the upload of the prompt audio.
ClonePromptUpload(k) ==
    /\ cl.task[k].pc = "upload_prompt"
    /\ \E out \in {"ok", "fail", "raise"} :
         cl' = [cl EXCEPT !.task[k] =
                  CASE out = "ok" ->
                         [@ EXCEPT !.pc = "clone", !.ups = 2,
                                   !.log = Append(@, ClLog("upload_prompt", TRUE))]
                    [] out = "fail" ->
                         [ClDone(k, FALSE, "upload_prompt") EXCEPT
                            !.ups = 2, !.log = Append(@, ClLog("upload_prompt", FALSE))]
                    [] out = "raise" -> ClDone(k, FALSE, "except")]
    /\ UNCHANGED regVars
    /\ ClFrame

AfterCloneAnyway(success) == "add"

\* if not success: ... return False
AfterClone(success) == IF success THEN "add" ELSE "done"

\* The progress message and await mgr.clone_voice(...).
CloneRemote(k) ==
    /\ cl.task[k].pc = "clone"
    /\ \E out \in {"ok", "fail", "raise"} :
         cl' = [cl EXCEPT !.task[k] =
                  IF out = "raise" THEN ClDone(k, FALSE, "except")
                  ELSE IF AfterClone(out = "ok") = "add"
                    THEN [@ EXCEPT !.pc = "add", !.cloned = TRUE,
                                   !.log = Append(@, ClLog("clone", out = "ok"))]
                  ELSE [ClDone(k, FALSE, "clone") EXCEPT
                          !.cloned = TRUE, !.log = Append(@, ClLog("clone", out = "ok"))]]
    /\ UNCHANGED regVars
    /\ ClFrame

\* await mgr.add_voice(voice_id, voice_info), and the answer.
CloneAdd(k) ==
    /\ cl.task[k].pc = "add"
    /\ \E o \in SaveOutcomes :
         LET c == Call("add", cl.task[k].id, Info("d1", PyNone))
         IN  /\ MgrCall(c, o)
             /\ cl' = [cl EXCEPT
                         !.task[k] = [ClDone(k, MgrResult(c, o).ret.b,
                                             IF MgrResult(c, o).ret.b THEN "stored" ELSE "save")
                                      EXCEPT !.log = Append(@, ClLog("add", MgrResult(c, o).ret.b))],
                         !.stores = Append(@, [k |-> k, id |-> cl.task[k].id,
                                               replaced |-> cl.task[k].id \in DOMAIN RegLoad])]
    /\ ClFrame

\* One command, any id.
InitValidate ==
    \E id \in ValidatorInputs, reg \in {EmptyReg, RegPut(EmptyReg, MyVoice1, Info("d0", PyNone))},
       prompt \in BOOLEAN :
        /\ cl = [ClIdle EXCEPT !.task[1] = [ClTaskOff EXCEPT !.pc = "validate", !.id = id,
                                                            !.prompt = prompt],
                               !.reg0 = reg]
        /\ RegStart(ClRegFile(reg))

NextValidate ==
    \/ CloneValidate(1)
    \/ CloneExists(1)
    \/ CloneResolve(1)
    \/ CloneUpload(1)
    \/ ClonePromptUpload(1)
    \/ CloneRemote(1)
    \/ CloneAdd(1)

\* Several commands, a few ids.
InitClone ==
    \E reg \in {EmptyReg, RegPut(EmptyReg, MyVoice1, Info("d0", PyNone))} :
        /\ cl = [ClIdle EXCEPT !.task = [k \in CloneTasks |-> ClTaskIdle], !.reg0 = reg]
        /\ RegStart(ClRegFile(reg))

NextClone ==
    \E k \in CloneTasks :
        \/ \E id \in CloneIds, prompt \in BOOLEAN : CloneStart(k, id, prompt)
        \/ CloneValidate(k)
        \/ CloneExists(k)
        \/ CloneResolve(k)
        \/ CloneUpload(k)
        \/ ClonePromptUpload(k)
        \/ CloneRemote(k)
        \/ CloneAdd(k)

(***************************************************************************)
(* MiniMaxAPIClient._build_request_body (src/api_client.py:70-165)         *)
(***************************************************************************)

\* minimax.trailing_pause, in thousandths of a second.
PauseChoices == {-500, 0, 1, 10, 14, 15, 16, 25, 125, 135, 500, 99990, 99995, 150000}

HasPauseOrZero(th) == th >= 0

\* if trailing_pause > 0
HasPause(th) == th > 0

\* max(0.01, min(99.99, trailing_pause)), in thousandths.
ClampPause(th) == Max(10, Min(99990, th))

\* The values with a 5 in the third decimal that ":.2f" rounds up: the double
\* nearest to them lies above them (0.025, 0.135), while that of 0.015 and
\* 0.125 does not.
TiesUp == {25, 135}

\* ":.2f": the number of hundredths printed for th thousandths.
Round2(th) ==
    IF th % 10 < 5 THEN th \div 10
    ELSE IF th % 10 > 5 THEN th \div 10 + 1
    ELSE IF th \in TiesUp THEN th \div 10 + 1
    ELSE th \div 10

Digit(n) ==
    CASE n = 0 -> "0" [] n = 1 -> "1" [] n = 2 -> "2" [] n = 3 -> "3" [] n = 4 -> "4"
      [] n = 5 -> "5" [] n = 6 -> "6" [] n = 7 -> "7" [] n = 8 -> "8" [] n = 9 -> "9"

\* ":.2f" of a value below 100: the integer part without leading zeros, a
\* point, two decimals.
Fmt2(hundredths) ==
    LET ip == hundredths \div 100
        fp == hundredths % 100
    IN  (IF ip >= 10 THEN <<Digit(ip \div 10), Digit(ip % 10)>> ELSE <<Digit(ip)>>)
        \o <<".", Digit(fp \div 10), Digit(fp % 10)>>

\* f"{processed_text}<#{pause_duration:.2f}#>"
WithPause(text, th) ==
    IF HasPause(th) THEN text \o <<"<", "#">> \o Fmt2(Round2(ClampPause(th))) \o <<"#", ">">>
    ELSE text

NormFlags == {"text_normalization", "english_normalization", "latex_read"}

\* override_emotion or get_config("minimax.emotion", None)
EmotionOf(override, configured) == IF Truthy(override) THEN override ELSE configured

\* voice_setting: the voice parameters, and emotion when there is one.
VoiceSetting(cfg, override) ==
    LET emotion == EmotionOf(override, cfg.emotion)
    IN  [key \in {"voice_id", "speed", "vol", "pitch"}
                 \cup (IF Truthy(emotion) THEN {"emotion"} ELSE {}) |->
           IF key = "emotion" THEN emotion ELSE "set"]

TopFlagsAlways(cfg) == NormFlags

\* The normalisation flags that are put into the body.
TopFlags(cfg) == {f \in NormFlags : cfg[f]}

\* The keys of the body proper; voice_modify, pronunciation_dict when the
\* configuration has them (extras), audio_mix goes under audio_setting.
TopKeys(cfg) ==
    {"model", "text", "stream", "language_boost", "output_format", "voice_setting",
     "audio_setting"}
    \cup TopFlags(cfg)
    \cup (IF cfg.extras THEN {"voice_modify", "pronunciation_dict"} ELSE {})

\* _build_request_body, then body["stream"] = ... of the calling path.
BuildBody(cfg, text, override, path) ==
    [top |-> [key \in TopKeys(cfg) |->
                CASE key \in NormFlags -> "True"
                  [] key = "stream" -> (IF path = "stream" THEN "True" ELSE "False")
                  [] OTHER -> "set"],
     text |-> WithPause(text, cfg.pause),
     voice_setting |-> VoiceSetting(cfg, override),
     audio_setting |-> {"sample_rate", "bitrate", "format", "channel"}
                       \cup (IF cfg.extras THEN {"audio_mix"} ELSE {}),
     voice_modify |-> IF cfg.extras THEN {"pitch", "intensity", "timbre", "sound_effects"}
                      ELSE {}]

BodyConfigs ==
    [text_normalization : BOOLEAN, english_normalization : BOOLEAN, latex_read : BOOLEAN,
     emotion : {NoneVal, "", "happy"}, pause : PauseChoices, extras : BOOLEAN]

NoBody == [top |-> <<>>, text |-> <<>>, voice_setting |-> <<>>, audio_setting |-> {},
           voice_modify |-> {}]

RbIdle == [pc |-> "idle",
           cfg |-> [text_normalization |-> FALSE, english_normalization |-> FALSE,
                    latex_read |-> FALSE, emotion |-> NoneVal, pause |-> 0, extras |-> FALSE],
           text |-> <<>>, override |-> NoneVal, path |-> "sync", body |-> NoBody]

InitBody ==
    \E cfg \in BodyConfigs, override \in {NoneVal, "", "sad"}, path \in {"sync", "stream", "async"} :
        rb = [RbIdle EXCEPT !.cfg = cfg, !.text = <<"h", "i">>, !.override = override,
                            !.path = path]

\* One of synthesize, synthesize_stream, synthesize_async builds its body.
Build ==
    /\ rb.pc = "idle"
    /\ rb' = [rb EXCEPT !.pc = "done",
                        !.body = BuildBody(rb.cfg, rb.text, rb.override, rb.path)]
    /\ RbFrame

NextBody == Build

(***************************************************************************)
(* MiniMaxAPIClient._process_audio_response and _write_audio_file          *)
(* (src/api_client.py:573-590, 168-183)                                    *)
(***************************************************************************)

\* The longest audio value followed.
MaxHexLen == 4

HexChars == {"0", "a", "f", "A", "g", " "}

AudioValues == UNION {[1..n -> HexChars] : n \in 0..MaxHexLen}

\* Py_ISSPACE
IsSpace(c) == c \in {" ", "\t", "\n", "\r"}

\* _PyLong_DigitValue, -1 for what is no hexadecimal digit.
HexVal(c) ==
    CASE c = "0" -> 0 [] c = "1" -> 1 [] c = "2" -> 2 [] c = "3" -> 3 [] c = "4" -> 4
      [] c = "5" -> 5 [] c = "6" -> 6 [] c = "7" -> 7 [] c = "8" -> 8 [] c = "9" -> 9
      [] c \in {"a", "A"} -> 10 [] c \in {"b", "B"} -> 11 [] c \in {"c", "C"} -> 12
      [] c \in {"d", "D"} -> 13 [] c \in {"e", "E"} -> 14 [] c \in {"f", "F"} -> 15
      [] OTHER -> -1

ByteOfSwapped(top, bot) == 16 * bot + top

ByteOf(top, bot) == 16 * top + bot

RECURSIVE HexScan(_, _, _)
\* bytes.fromhex from position i on: blanks are passed over before a pair, a
\* pair is two digits next to each other; anything else is a ValueError.
HexScan(s, i, acc) ==
    IF i > Len(s) THEN [ok |-> TRUE, bytes |-> acc]
    ELSE IF IsSpace(s[i]) THEN HexScan(s, i + 1, acc)
    ELSE IF HexVal(s[i]) < 0 THEN [ok |-> FALSE, bytes |-> <<>>]
    ELSE IF i + 1 > Len(s) \/ HexVal(s[i + 1]) < 0 THEN [ok |-> FALSE, bytes |-> <<>>]
    ELSE HexScan(s, i + 2, Append(acc, ByteOf(HexVal(s[i]), HexVal(s[i + 1]))))

FromHex(s) == HexScan(s, 1, <<>>)

\* The cache directory: the contents of its files by name; names are the
\* numbers uuid4 draws.
CacheFileNames == 1..3

CacheDirsBefore == {<<>>, (2 :> <<0, 10>>)}

\* What the handler returns: the path of a file (its name), the value
\* itself, or None.
RetNone == [kind |-> "none", name |-> 0]

ArIdle == [pc |-> "idle", value |-> <<>>, output_format |-> "hex", dir |-> <<>>,
           dir0 |-> <<>>, ret |-> RetNone]

InitAudio ==
    \E value \in AudioValues, fmt \in {"hex", "url", "pcm"}, dir \in CacheDirsBefore :
        ar = [ArIdle EXCEPT !.value = value, !.output_format = fmt, !.dir = dir, !.dir0 = dir]

\* _process_audio_response: with "hex" the value is decoded and written
\* under a fresh name, whose path is returned; an undecodable value returns
\* None.
ProcessHex ==
    /\ ar.pc = "idle"
    /\ ar.output_format = "hex"
    /\ LET res == FromHex(ar.value)
       IN  IF ~res.ok THEN ar' = [ar EXCEPT !.pc = "done", !.ret = RetNone]
           ELSE \E name \in CacheFileNames \ DOMAIN ar.dir :
                    ar' = [ar EXCEPT !.pc = "done", !.ret = [kind |-> "path", name |-> name],
                                     !.dir = [n \in DOMAIN ar.dir \cup {name} |->
                                                IF n = name THEN res.bytes ELSE ar.dir[n]]]
    /\ ArFrame

\* With "url" the value itself is returned.
ProcessUrl ==
    /\ ar.pc = "idle"
    /\ ar.output_format = "url"
    /\ ar' = [ar EXCEPT !.pc = "done", !.ret = [kind |-> "value", name |-> 0]]
    /\ ArFrame

\* Any other output format is an error.
ProcessOther ==
    /\ ar.pc = "idle"
    /\ ar.output_format \notin {"hex", "url"}
    /\ ar' = [ar EXCEPT !.pc = "done", !.ret = RetNone]
    /\ ArFrame

NextAudio == ProcessHex \/ ProcessUrl \/ ProcessOther

(***************************************************************************)
(* MiniMaxAPIClient.get_instance, _ensure_session, _ensure_rate_limiter,   *)
(* close (src/api_client.py:41-68), called by several tasks                *)
(***************************************************************************)

\* Tasks that use the client at the same time.
NumClientUsers == 2

\* aiohttp sessions created at most in a run.
MaxSessions == 3

ClientUsers == 1..NumClientUsers

\* A caller: where it is, the client it was handed (0: none yet), the
\* session it asked close() to close.
GiCallerIdle == [pc |-> "idle", client |-> 0, closing |-> 0]

\* cls._instance, cls._lock (0: free), the objects constructed so far; of the
\* one client, _session (0: None), _rate_limiter (0: None) and the sessions
\* that are closed. History: every client returned, and for every session
\* created what _session was just before.
GiIdle == [instance |-> 0, lock |-> 0, clients |-> 0,
           session |-> 0, sessions |-> 0, closed |-> {},
           limiter |-> 0, limiters |-> 0,
           caller |-> [k \in ClientUsers |-> GiCallerIdle],
           returned |-> {}, created |-> {}]

InitInstance == gi = GiIdle

\* async with cls._lock: the lock is taken when it is free.
GetInstanceLock(k) ==
    /\ gi.caller[k].pc = "idle"
    /\ gi.lock = 0
    /\ gi' = [gi EXCEPT !.lock = k, !.caller[k].pc = "locked"]
    /\ GiFrame

\* if cls._instance is None: cls._instance = cls(); return cls._instance
GetInstanceReturn(k) ==
    /\ gi.caller[k].pc = "locked"
    /\ LET fresh == gi.instance = 0
           inst == IF fresh THEN gi.clients + 1 ELSE gi.instance
       IN  gi' = [gi EXCEPT !.instance = inst,
                            !.clients = IF fresh THEN @ + 1 ELSE @,
                            !.lock = 0,
                            !.caller[k].pc = "client", !.caller[k].client = inst,
                            !.returned = @ \cup {inst}]
    /\ GiFrame

NeedsSessionAlways(session, closed) == TRUE

\* self._session is None or self._session.closed
NeedsSession(session, closed) == session = 0 \/ session \in closed

\* _ensure_session: no await inside, one step.
EnsureSession(k) ==
    /\ gi.caller[k].pc = "client"
    /\ IF NeedsSession(gi.session, gi.closed)
       THEN /\ gi.sessions < MaxSessions
            /\ gi' = [gi EXCEPT !.session = gi.sessions + 1, !.sessions = @ + 1,
                                !.created = @ \cup {[session |-> gi.sessions + 1,
                                                     held |-> gi.session,
                                                     heldClosed |-> gi.session \in gi.closed]}]
       ELSE UNCHANGED gi
    /\ GiFrame

\* _ensure_rate_limiter: a plain method, one step.
EnsureRateLimiter(k) ==
    /\ gi.caller[k].pc = "client"
    /\ gi.limiter = 0
    /\ gi' = [gi EXCEPT !.limiter = gi.limiters + 1, !.limiters = @ + 1]
    /\ GiFrame

\* close: if self._session and not self._session.closed:
\* await self._session.close() -- the session is closed, the task suspended.
CloseSession(k) ==
    /\ gi.caller[k].pc = "client"
    /\ gi.session # 0
    /\ gi.session \notin gi.closed
    /\ gi' = [gi EXCEPT !.closed = @ \cup {gi.session},
                        !.caller[k].pc = "closing", !.caller[k].closing = gi.session]
    /\ GiFrame

\* close resumed: self._session = None, whatever _session is by now.
CloseForget(k) ==
    /\ gi.caller[k].pc = "closing"
    /\ gi' = [gi EXCEPT !.session = 0, !.caller[k].pc = "client", !.caller[k].closing = 0]
    /\ GiFrame

\* The task is done with the client; its next use starts with get_instance.
ClientRelease(k) ==
    /\ gi.caller[k].pc = "client"
    /\ gi' = [gi EXCEPT !.caller[k] = GiCallerIdle]
    /\ GiFrame

NextInstance ==
    \E k \in ClientUsers :
        \/ GetInstanceLock(k)
        \/ GetInstanceReturn(k)
        \/ EnsureSession(k)
        \/ EnsureRateLimiter(k)
        \/ CloseSession(k)
        \/ CloseForget(k)
        \/ ClientRelease(k)

(***************************************************************************)
(* MiniMaxAPIClient.synthesize_stream from session.post on, line by line   *)
(* (src/api_client.py:354-413)                                             *)
(***************************************************************************)

\* The longest stream followed, in lines.
MaxStreamLines == 3

\* A line of the response body, by what the parser looks at: whether it
\* starts with "data:", whether anything follows the prefix, what json.loads
\* makes of that, and, of a JSON object, "base_resp" and its "status_code",
\* "data" and its "audio".
StreamLine(prefix, payload, json, base, code, data, audio, hex) ==
    [prefix |-> prefix, payload |-> payload, json |-> json, base |-> base, code |-> code,
     data |-> data, audio |-> audio, hex |-> hex]

\* An event with a fragment and a status code of 0.
AudioLine(hex) == StreamLine(TRUE, TRUE, "object", "object", 0, "object", "str", hex)

StreamLines ==
    { StreamLine(FALSE, TRUE, "none", "absent", 0, "absent", "absent", <<>>),     \* event: x
      StreamLine(TRUE, FALSE, "none", "absent", 0, "absent", "absent", <<>>),     \* data:
      StreamLine(TRUE, TRUE, "malformed", "absent", 0, "absent", "absent", <<>>), \* data: [DONE]
      StreamLine(TRUE, TRUE, "number", "absent", 0, "absent", "absent", <<>>),    \* data: 123
      AudioLine(<<"a", "0">>),
      AudioLine(<<"f", "f">>),
      AudioLine(<<"g", "0">>),
      AudioLine(<<>>),
      StreamLine(TRUE, TRUE, "object", "absent", 0, "object", "str", <<"0", "f">>),
      StreamLine(TRUE, TRUE, "object", "object", 0, "absent", "absent", <<>>),
      StreamLine(TRUE, TRUE, "object", "object", 1004, "object", "str", <<"a", "0">>),
      StreamLine(TRUE, TRUE, "object", "object", 0, "null", "absent", <<>>),
      StreamLine(TRUE, TRUE, "object", "null", 0, "object", "str", <<"f", "f">>),
      StreamLine(TRUE, TRUE, "object", "object", 0, "object", "number", <<>>) }

\* What session.post is answered with.
StreamStatuses == {"200", "http_error", "timeout", "exception"}

ErrCodeIgnored(l) == FALSE

\* base_resp.get("status_code", 0) != 0
ErrCode(l) == l.base = "object" /\ l.code # 0

\* One pass of the loop over response.content:
\*   "skip"   continue              "error"  return None (status code)
\*   "raise"  an exception that the outer handler turns into return None
\*   "chunk"  audio_chunks.append(bytes.fromhex(audio_hex))
LineOutcome(l) ==
    IF ~l.prefix THEN "skip"
    ELSE IF ~l.payload THEN "skip"
    ELSE IF l.json = "malformed" THEN "skip"
    ELSE IF l.json # "object" THEN "raise"
    ELSE IF l.base = "null" THEN "raise"
    ELSE IF ErrCode(l) THEN "error"
    ELSE IF l.data = "null" THEN "raise"
    ELSE IF l.data = "absent" \/ l.audio = "absent" THEN "skip"
    ELSE IF l.audio = "number" THEN "raise"
    ELSE IF l.hex = <<>> THEN "skip"
    ELSE IF FromHex(l.hex).ok THEN "chunk"
    ELSE "skip"

RECURSIVE Join(_)
\* b"".join(audio_chunks)
Join(chunks) == IF chunks = <<>> THEN <<>> ELSE Head(chunks) \o Join(Tail(chunks))

\* History: requests counts the session.post calls, read the lines taken from
\* the stream, why the reason of the return.
SsIdle == [pc |-> "post", lines |-> <<>>, status |-> "200", read |-> 0, chunks |-> <<>>,
           requests |-> 0, dir |-> <<>>, dir0 |-> <<>>, ret |-> RetNone, why |-> ""]

InitStream ==
    \E lines \in SeqsUpTo(StreamLines, MaxStreamLines), status \in StreamStatuses :
        /\ (status # "200" => lines = <<>>)
        /\ ss = [SsIdle EXCEPT !.lines = lines, !.status = status,
                               !.dir = (2 :> <<0, 10>>), !.dir0 = (2 :> <<0, 10>>)]

SsReturnNone(why) == ss' = [ss EXCEPT !.pc = "done", !.ret = RetNone, !.why = why]

\* async with session.post(...): the one request; anything but a 200 returns
\* None.
StreamSend ==
    /\ ss.pc = "post"
    /\ IF ss.status = "200"
       THEN ss' = [ss EXCEPT !.pc = "read", !.requests = @ + 1]
       ELSE ss' = [ss EXCEPT !.pc = "done", !.requests = @ + 1, !.ret = RetNone,
                             !.why = ss.status]
    /\ SsFrame

\* async for line_bytes in response.content: the next line is handled.
StreamRead ==
    /\ ss.pc = "read"
    /\ ss.read < Len(ss.lines)
    /\ LET l == ss.lines[ss.read + 1]
           out == LineOutcome(l)
       IN  CASE out = "skip" -> ss' = [ss EXCEPT !.read = @ + 1]
             [] out = "chunk" ->
                  ss' = [ss EXCEPT !.read = @ + 1, !.chunks = Append(@, FromHex(l.hex).bytes)]
             [] OTHER ->
                  ss' = [ss EXCEPT !.read = @ + 1, !.pc = "done", !.ret = RetNone, !.why = out]
    /\ SsFrame

\* The connection fails or the timeout passes while the body is being read.
StreamBreak ==
    /\ ss.pc = "read"
    /\ SsReturnNone("broken")
    /\ SsFrame

\* The stream is at its end: without fragments None is returned, otherwise
\* the fragments are joined and written under a fresh name.
StreamEnd ==
    /\ ss.pc = "read"
    /\ ss.read = Len(ss.lines)
    /\ IF ss.chunks = <<>> THEN SsReturnNone("empty")
       ELSE \E name \in CacheFileNames \ DOMAIN ss.dir :
                ss' = [ss EXCEPT !.pc = "done", !.why = "written",
                                 !.ret = [kind |-> "path", name |-> name],
                                 !.dir = [n \in DOMAIN ss.dir \cup {name} |->
                                            IF n = name THEN Join(ss.chunks) ELSE ss.dir[n]]]
    /\ SsFrame

NextStream == StreamSend \/ StreamRead \/ StreamBreak \/ StreamEnd

(***************************************************************************)
(* VoicePromptInjector.execute (src/components/voice_prompt_injector.py:   *)
(* 46-70), beside the operations on the shared pending-TTS state           *)
(***************************************************************************)

\* The prompts the injector is called with: no message at all, an empty
\* prompt, a prompt.
NoMessage == <<"<no message>">>

InjPrompts == {NoMessage, <<>>, <<"p">>}

\* VOICE_TEXT_GUIDELINES + "\n" + message.llm_prompt
WithGuidelines(prompt) == <<"VOICE_TEXT_GUIDELINES", "\n">> \o prompt

ShouldInjectOrPending(alw, pend, p) == alw \/ pend \/ p > 0

\* if not await is_always_voice(stream_id): return -- neither the pending
\* set nor random_voice_probability is read.
ShouldInject(alw, pend, p) == alw

\* History: alw and pend are what the always-voice set and the pending set
\* held for the conversation when is_always_voice returned, p is the
\* configured random_voice_probability.
InjIdle == [pc |-> "idle", chat |-> NoChat, prompt |-> <<>>, out |-> <<>>, p |-> 0,
            alw |-> FALSE, pend |-> FALSE, ret |-> NoneVal]

InitInject == InitChat /\ inj = InjIdle

InjStateFrame == InjFrame

\* execute is called; lines 50-55. Without a message, a prompt or a stream
\* id it returns the message as it is.
InjBegin ==
    /\ inj.pc = "idle"
    /\ \E prompt \in InjPrompts, c \in Chats \cup {NoChat}, p \in Probabilities :
         LET rec == [InjIdle EXCEPT !.chat = c, !.prompt = prompt, !.out = prompt, !.p = p]
         IN  inj' = IF prompt = NoMessage \/ prompt = <<>> \/ c = NoChat
                      THEN [rec EXCEPT !.pc = "done"]
                    ELSE [rec EXCEPT !.pc = "check"]
    /\ InjStateFrame

\* is_always_voice returns, and the prompt is modified or not; lines 57-64.
InjCheck ==
    /\ inj.pc = "check"
    /\ LET alw == inj.chat \in ch_always
           pend == inj.chat \in ch_pend
       IN  inj' = IF ShouldInject(alw, pend, inj.p)
                    THEN [inj EXCEPT !.pc = "done", !.alw = alw, !.pend = pend,
                                     !.out = WithGuidelines(inj.prompt), !.ret = "injected"]
                    ELSE [inj EXCEPT !.pc = "done", !.alw = alw, !.pend = pend]
    /\ InjStateFrame

\* The host goes on; the next prompt may come.
InjReset ==
    /\ inj.pc = "done"
    /\ inj' = InjIdle
    /\ InjStateFrame

NextInject ==
    \/ \E c \in Chats, e \in MarkArgs : Mark(c, e)
    \/ \E c \in Chats : Consume(c)
    \/ \E c \in Chats : Toggle(c)
    \/ \E c \in Chats \cup {NoChat}, enable \in BOOLEAN, e \in EmotionArgs : ToolExecute(c, enable, e)
    \/ InjBegin
    \/ InjCheck
    \/ InjReset

(***************************************************************************)
(* The operations on the shared pending-TTS state, one after the other in  *)
(* any order (src/components/tts_tool.py:21-64, 112-150): each holds _lock *)
(* for the whole of what it does to the state                              *)
(***************************************************************************)

\* History: the operation that just returned (op, chat, the emotion and the
\* enable it was given, what it returned), and for every conversation the
\* emotion of its most recent mark (NoKey: never marked) and whether the tool
\* cancelled it since.
PoIdle == [op |-> "none", chat |-> NoChat, arg |-> NoneVal, enable |-> TRUE,
           was |-> FALSE, e |-> NoneVal, ret |-> FALSE,
           marked |-> [c \in Chats |-> NoKey], cancelled |-> {}]

InitPending == InitChat /\ po = PoIdle

PoStateFrame == UNCHANGED <<ch_trues, h>> /\ PoFrame

\* mark_tts_pending(c, e) called directly.
PoMark(c, e) ==
    /\ ch_pend' = MarkPending(ChatState, c, e).pend
    /\ ch_emo' = MarkPending(ChatState, c, e).emo
    /\ po' = [po EXCEPT !.op = "mark", !.chat = c, !.arg = e, !.enable = TRUE,
                        !.was = FALSE, !.e = NoneVal, !.ret = FALSE,
                        !.marked[c] = e, !.cancelled = @ \ {c}]
    /\ UNCHANGED ch_always
    /\ PoStateFrame

\* consume_tts_pending(c).
PoConsume(c) ==
    /\ LET r == ConsumePending(ChatState, c)
       IN  /\ ch_pend' = r.pend
           /\ ch_emo' = r.emo
           /\ po' = [po EXCEPT !.op = "consume", !.chat = c, !.arg = NoneVal, !.enable = TRUE,
                               !.was = r.was, !.e = r.e, !.ret = FALSE]
    /\ UNCHANGED ch_always
    /\ PoStateFrame

\* toggle_always_voice(c).
PoToggle(c) ==
    /\ ch_always' = ToggleAlways(ch_always, c).always
    /\ po' = [po EXCEPT !.op = "toggle", !.chat = c, !.arg = NoneVal, !.enable = TRUE,
                        !.was = FALSE, !.e = NoneVal,
                        !.ret = ToggleAlways(ch_always, c).ret]
    /\ UNCHANGED <<ch_pend, ch_emo>>
    /\ PoStateFrame

\* MiniMaxTTSTool.execute(enable, emotion) in conversation c (NoChat: without
\* a conversation context): nothing, the cancellation, or mark_tts_pending
\* with the stripped emotion when that is a valid tag and None otherwise.
PoTool(c, enable, emotion) ==
    /\ IF c = NoChat
         THEN /\ UNCHANGED <<ch_pend, ch_emo>>
              /\ po' = [po EXCEPT !.op = "tool", !.chat = c, !.arg = emotion,
                                  !.enable = enable, !.was = FALSE, !.e = NoneVal,
                                  !.ret = FALSE]
       ELSE IF ~enable
         THEN /\ ch_pend' = CancelPending(ChatState, c).pend
              /\ ch_emo' = CancelPending(ChatState, c).emo
              /\ po' = [po EXCEPT !.op = "tool", !.chat = c, !.arg = emotion,
                                  !.enable = enable, !.was = FALSE, !.e = NoneVal,
                                  !.ret = FALSE, !.cancelled = @ \cup {c}]
       ELSE LET chosen == IF Strip(emotion) \in VALID_EMOTIONS THEN Strip(emotion) ELSE ""
                arg == IF chosen # "" THEN chosen ELSE NoneVal
            IN /\ ch_pend' = MarkPending(ChatState, c, arg).pend
               /\ ch_emo' = MarkPending(ChatState, c, arg).emo
               /\ po' = [po EXCEPT !.op = "tool", !.chat = c, !.arg = emotion,
                                   !.enable = enable, !.was = FALSE, !.e = NoneVal,
                                   !.ret = FALSE, !.marked[c] = arg, !.cancelled = @ \ {c}]
    /\ UNCHANGED ch_always
    /\ PoStateFrame

NextPending ==
    \/ \E c \in Chats, e \in MarkArgs : PoMark(c, e)
    \/ \E c \in Chats : PoConsume(c)
    \/ \E c \in Chats : PoToggle(c)
    \/ \E c \in Chats \cup {NoChat}, enable \in BOOLEAN, e \in EmotionArgs : PoTool(c, enable, e)

IdleUtil ==
    /\ ex = ExIdle
    /\ cc = CcIdle
    /\ cl = ClIdle
    /\ rb = RbIdle
    /\ ar = ArIdle
    /\ gi = GiIdle
    /\ ss = SsIdle
    /\ inj = InjIdle
    /\ po = PoIdle

ExOthersIdle ==
    /\ cc = CcIdle
    /\ cl = ClIdle
    /\ rb = RbIdle
    /\ ar = ArIdle
    /\ gi = GiIdle
    /\ ss = SsIdle
    /\ inj = InjIdle
    /\ po = PoIdle

CcOthersIdle ==
    /\ ex = ExIdle
    /\ cl = ClIdle
    /\ rb = RbIdle
    /\ ar = ArIdle
    /\ gi = GiIdle
    /\ ss = SsIdle
    /\ inj = InjIdle
    /\ po = PoIdle

ClOthersIdle ==
    /\ ex = ExIdle
    /\ cc = CcIdle
    /\ rb = RbIdle
    /\ ar = ArIdle
    /\ gi = GiIdle
    /\ ss = SsIdle
    /\ inj = InjIdle
    /\ po = PoIdle

RbOthersIdle ==
    /\ ex = ExIdle
    /\ cc = CcIdle
    /\ cl = ClIdle
    /\ ar = ArIdle
    /\ gi = GiIdle
    /\ ss = SsIdle
    /\ inj = InjIdle
    /\ po = PoIdle

ArOthersIdle ==
    /\ ex = ExIdle
    /\ cc = CcIdle
    /\ cl = ClIdle
    /\ rb = RbIdle
    /\ gi = GiIdle
    /\ ss = SsIdle
    /\ inj = InjIdle
    /\ po = PoIdle

GiOthersIdle ==
    /\ ex = ExIdle
    /\ cc = CcIdle
    /\ cl = ClIdle
    /\ rb = RbIdle
    /\ ar = ArIdle
    /\ ss = SsIdle
    /\ inj = InjIdle
    /\ po = PoIdle

SsOthersIdle ==
    /\ ex = ExIdle
    /\ cc = CcIdle
    /\ cl = ClIdle
    /\ rb = RbIdle
    /\ ar = ArIdle
    /\ gi = GiIdle
    /\ inj = InjIdle
    /\ po = PoIdle

InjOthersIdle ==
    /\ ex = ExIdle
    /\ cc = CcIdle
    /\ cl = ClIdle
    /\ rb = RbIdle
    /\ ar = ArIdle
    /\ gi = GiIdle
    /\ ss = SsIdle
    /\ po = PoIdle

PoOthersIdle ==
    /\ ex = ExIdle
    /\ cc = CcIdle
    /\ cl = ClIdle
    /\ rb = RbIdle
    /\ ar = ArIdle
    /\ gi = GiIdle
    /\ ss = SsIdle
    /\ inj = InjIdle

(***************************************************************************)
(* Specifications                                                          *)
(***************************************************************************)

InitSpecRL == InitRL /\ IdleSyn /\ IdleChat /\ IdleReg /\ IdleCmd /\ IdleUtil

SpecRL == InitSpecRL /\ [][NextRL]_vars

InitSpecSyn == IdleRL /\ InitSyn /\ IdleChat /\ IdleReg /\ IdleCmd /\ IdleUtil

SpecSyn == InitSpecSyn /\ [][NextSyn]_vars

\* synthesize_async alone: the configurations that auto_synthesize sends down
\* the asynchronous path.  The event loop resumes every coroutine that can go
\* on, every sleep ends and every request is answered or times out.
NextAsync ==
    \/ AutoSynthesize
    \/ SynAcquire
    \/ AsyncPost
    \/ AsyncPollWake
    \/ AsyncPollGet
    \/ AsyncDownload

InitSpecAsync ==
    /\ IdleRL /\ InitSyn /\ IdleChat /\ IdleReg /\ IdleCmd /\ IdleUtil
    /\ Dispatch(sy_cfg) = "async"

SpecAsync == InitSpecAsync /\ [][NextAsync]_vars /\ WF_vars(NextAsync)

InitSpecChat == IdleRL /\ IdleSyn /\ InitChat /\ IdleReg /\ IdleCmd /\ IdleUtil

SpecChat == InitSpecChat /\ [][NextChat]_vars

InitSpecReg == IdleRL /\ IdleSyn /\ IdleChat /\ InitReg /\ IdleCmd /\ IdleUtil

SpecReg == InitSpecReg /\ [][NextReg]_vars

InitSpecCmd ==
    /\ IdleRL /\ IdleSyn /\ IdleChat /\ InitCmd /\ IdleUtil
    /\ \E reg \in CmdInitialRegs :
         RegStart(IF reg = EmptyReg THEN [kind |-> "missing", data |-> EmptyReg]
                  ELSE [kind |-> "json", data |-> EncodeReg(reg)])

SpecCmd == InitSpecCmd /\ [][NextCmd]_vars

InitSpecExp == IdleRL /\ IdleSyn /\ IdleChat /\ IdleReg /\ IdleCmd /\ InitExp /\ ExOthersIdle

SpecExp == InitSpecExp /\ [][NextExp]_vars

InitSpecCache == IdleRL /\ IdleSyn /\ IdleChat /\ IdleReg /\ IdleCmd /\ InitCache /\ CcOthersIdle

SpecCache == InitSpecCache /\ [][NextCache]_vars

InitSpecValidate ==
    /\ IdleRL /\ IdleSyn /\ IdleChat /\ IdleCmd /\ InitValidate /\ ClOthersIdle

SpecValidate == InitSpecValidate /\ [][NextValidate]_vars

InitSpecClone ==
    /\ IdleRL /\ IdleSyn /\ IdleChat /\ IdleCmd /\ InitClone /\ ClOthersIdle

SpecClone == InitSpecClone /\ [][NextClone]_vars

InitSpecBody == IdleRL /\ IdleSyn /\ IdleChat /\ IdleReg /\ IdleCmd /\ InitBody /\ RbOthersIdle

SpecBody == InitSpecBody /\ [][NextBody]_vars

InitSpecAudio == IdleRL /\ IdleSyn /\ IdleChat /\ IdleReg /\ IdleCmd /\ InitAudio /\ ArOthersIdle

SpecAudio == InitSpecAudio /\ [][NextAudio]_vars

InitSpecInstance ==
    IdleRL /\ IdleSyn /\ IdleChat /\ IdleReg /\ IdleCmd /\ InitInstance /\ GiOthersIdle

SpecInstance == InitSpecInstance /\ [][NextInstance]_vars

InitSpecStream == IdleRL /\ IdleSyn /\ IdleChat /\ IdleReg /\ IdleCmd /\ InitStream /\ SsOthersIdle

SpecStream == InitSpecStream /\ [][NextStream]_vars

InitSpecInject == IdleRL /\ IdleSyn /\ IdleReg /\ IdleCmd /\ InitInject /\ InjOthersIdle

SpecInject == InitSpecInject /\ [][NextInject]_vars

InitSpecPending == IdleRL /\ IdleSyn /\ IdleReg /\ IdleCmd /\ InitPending /\ PoOthersIdle

SpecPending == InitSpecPending /\ [][NextPending]_vars


\* C1: any two acquisitions granted by one RateLimiter are at least
\* 60 / max(1, rpm) seconds apart, whatever the interleaving of the callers.
C1_GrantSpacing ==
    \A i \in DOMAIN rl_grants : \A j \in DOMAIN rl_grants :
        i < j => rl_grants[j].t - rl_grants[i].t >= 60 \div Max(1, rl_rpm)

\* C1 witness: two callers contended, the second grant came after a sleep
\* under the lock, and the rpm was one that the constructor clamps.
C1_Witness ==
    /\ Len(rl_grants) >= 2
    /\ rl_grants[1].c # rl_grants[2].c
    /\ rl_grants[2].slept
    /\ rl_rpm < 1

\* C2: every HTTP request of a synthesis call (submission, retry, task query,
\* audio download) is preceded by a rate-limiter grant of its own.
C2_EveryRequestGranted ==
    \A i \in DOMAIN sy_reqs : sy_reqs[i].granted

RetryableFailure(r) ==
    \/ r.kind \in {"http_error", "timeout", "client_error"}
    \/ r.kind = "json" /\ r.code \in {1001, 1002}

\* C3: when every attempt of synthesize fails in a retryable way and
\* max_retries = N >= 1, the call sends exactly N requests, sleeps
\* retry_delay * 2^(k-1) after failed attempt k < N, does not sleep after
\* attempt N, and returns None.
C3_RetryExhaustion ==
    ( /\ sy_pc = "done"
      /\ sy_path = "sync"
      /\ sy_cfg.creds
      /\ sy_cfg.max_retries >= 1
      /\ \A i \in DOMAIN sy_resps : RetryableFailure(sy_resps[i]) )
    => /\ Len(sy_reqs) = sy_cfg.max_retries
       /\ Len(sy_sleeps) = sy_cfg.max_retries - 1
       /\ \A k \in DOMAIN sy_sleeps : sy_sleeps[k] = sy_cfg.retry_delay * Pow2(k - 1)
       /\ sy_result = "none"

\* C3 witness: three attempts, failing by a retryable status code, a timeout
\* and a non-200 answer, with the two backoff sleeps in between.
C3_Witness ==
    /\ sy_pc = "done"
    /\ sy_path = "sync"
    /\ sy_cfg.max_retries = 3
    /\ sy_cfg.retry_delay = 3
    /\ Len(sy_resps) = 3
    /\ sy_resps[1].code = 1001
    /\ sy_resps[2].kind = "timeout"
    /\ sy_resps[3].kind = "http_error"
    /\ sy_sleeps = <<3, 6>>

\* C4: a fatal status code (1004, 1008) in the answer to any attempt of
\* synthesize ends the call at once with None: that attempt is the last
\* request and no sleep follows it, whatever max_retries is.
C4_FatalShortCircuit ==
    \A i \in DOMAIN sy_resps :
        (sy_resps[i].kind = "json" /\ sy_resps[i].code \in {1004, 1008})
        => /\ i = Len(sy_resps)
           /\ Len(sy_reqs) = i
           /\ Len(sy_sleeps) = i - 1
           /\ sy_pc = "done"
           /\ sy_result = "none"

\* C4 witness: a fatal code on the first of four allowed attempts.
C4_Witness ==
    /\ sy_cfg.max_retries = 4
    /\ Len(sy_reqs) = 1
    /\ sy_resps[1].code = 1008
    /\ sy_pc = "done"

\* C6: auto_synthesize takes the asynchronous path iff async_enabled and
\* len(text) > async_threshold, whatever stream_enabled is; otherwise the
\* streaming path iff stream_enabled; otherwise the synchronous path; and the
\* call never leaves the path it took.
C6_Dispatch ==
    sy_path # "none" =>
        /\ sy_path = IF sy_cfg.async_enabled /\ sy_cfg.text_len > sy_cfg.async_threshold
                       THEN "async"
                     ELSE IF sy_cfg.stream_enabled THEN "stream"
                     ELSE "sync"
        /\ sy_pc \in CASE sy_path = "sync" -> {"sync_acquire", "sync_post", "sync_sleep", "done"}
                       [] sy_path = "stream" -> {"stream_acquire", "stream_post", "done"}
                       [] sy_path = "async" -> {"async_acquire", "async_post", "poll_sleep",
                                                "poll_get", "download", "done"}

\* C6 witness: a text at the threshold (not above it) with async and streaming
\* both enabled went down the streaming path and sent its request.
C6_Witness ==
    /\ sy_cfg.async_enabled
    /\ sy_cfg.stream_enabled
    /\ sy_cfg.text_len = sy_cfg.async_threshold
    /\ sy_path = "stream"
    /\ Len(sy_reqs) = 1

\* C5: consume_tts_pending is an atomic check-and-clear: between two marks of
\* a conversation at most one consume call returns was_pending = True, and
\* once one has, the conversation is not pending and has no recorded emotion.
C5_ConsumeOnce ==
    \A c \in Chats :
        /\ ch_trues[c] <= 1
        /\ ch_trues[c] >= 1 => (c \notin ch_pend /\ ch_emo[c] = NoKey)

\* C5 witness: after one mark of c1, one consume returned True and the
\* handler's own consume of c1 then returned False.
C5_Witness ==
    /\ ch_trues["c1"] = 1
    /\ h.chat = "c1"
    /\ h.pc = "done"
    /\ h.reason = "not_triggered"
    /\ ~h.was

\* C7: for a reply with content and a conversation id the handler enters the
\* speech path iff always-voice mode was active, or else a pending flag was
\* consumed, or else random_voice_probability > 0 and the draw fell below it,
\* in that order; otherwise the reply passes through unchanged and no
\* synthesis call is made. A probability of 0 never triggers.
C7_TriggerPriority ==
    (h.pc \in {"synth", "send", "done"} /\ h.content # "none" /\ h.chat # NoChat)
    => /\ h.trigger = IF h.alw THEN "always"
                      ELSE IF h.was THEN "flag"
                      ELSE IF h.p > 0 /\ h.draw >= 0 /\ h.draw < h.p THEN "random"
                      ELSE "none"
       /\ h.synth => h.trigger # "none"
       /\ h.trigger = "none" => (~h.synth /\ ~h.sent /\ ~h.blank /\ h.cont)
       /\ h.p <= 0 => h.trigger # "random"

\* C7 witness: neither always-voice nor a flag, the draw fell below the
\* probability and the reply was spoken.
C7_Witness ==
    /\ h.pc = "done"
    /\ ~h.alw
    /\ ~h.was
    /\ h.trigger = "random"
    /\ h.draw = 49
    /\ h.sent

\* C8: when the speech path was entered and ends without the voice message
\* having been sent (missing key or voice id, no audio, any exception), the
\* handler returns normally with the reply text as generated and tells the
\* host to continue with the text delivery.
C8_FailureFallsBack ==
    (h.pc = "done" /\ h.trigger # "none" /\ ~h.sent)
    => (~h.blank /\ h.cont /\ ~h.raised)

\* C8 witness: synthesis was triggered by a flag and returned no audio.
C8_Witness ==
    /\ h.pc = "done"
    /\ h.trigger = "flag"
    /\ h.synth
    /\ h.reason = "synth_failed"

\* C9 as claimed: when the consumed flag carries no emotion the request body
\* has no emotion field, even if minimax.emotion is configured.
C9_NoDefaultEmotion ==
    (h.synth /\ h.emo = NoneVal) => h.req_emo = NoField

\* C9 as amended: the emotion of the request is the flag's emotion when it
\* carries one, else the configured minimax.emotion when that is non-empty,
\* and the field is absent only when both are missing.
C9_RequestEmotion ==
    h.synth =>
        h.req_emo = IF h.emo # NoneVal THEN h.emo
                    ELSE IF h.dflt # "" THEN h.dflt
                    ELSE NoField

\* C9 witness: a flag without emotion was consumed while minimax.emotion is
\* configured, and the synthesis request was built.
C9_Witness ==
    /\ h.synth
    /\ h.was
    /\ h.emo = NoneVal
    /\ h.dflt = "sad"
    /\ h.req_emo = "sad"

\* C10: after add_voice(id, record) returned True, a fresh manager (nothing
\* cached, the registry read back from the file) returns from get_voices the
\* registry as it was before the call with id mapped to the record added.
C10_RegistryRoundTrip ==
    /\ (rg_add.ok /\ rg_add.got) => rg_add.ret = rg_add.reg
    /\ (rg_add.ok /\ rg_lock = 0) => LoadSync(rg_file) = rg_add.reg

\* C10 witness: a record whose prompt text is the word null was added next to
\* an older voice, the manager was restarted and get_voices returned both.
C10_Witness ==
    /\ rg_add.ok
    /\ rg_add.fresh
    /\ rg_add.got
    /\ rg_add.id = "v1"
    /\ DOMAIN rg_add.ret = {"v1", "v2"}
    /\ rg_add.ret["v1"]["prompt_text"] = PyStr("null")

\* C11 (as stated): when the write of the registry file fails, add_voice and
\* remove_voice return False, the registry in memory keeps the change (the id
\* is there after a failed add, gone after a failed remove), and the file
\* still holds what it held before the call.
C11_FailedSaveKeepsFile ==
    (rg_done.op \in {"add", "remove"} /\ rg_done.o \in {"fail_open", "fail_write"}) =>
        /\ ~rg_done.b
        /\ rg_done.op = "add" => rg_done.id \in DOMAIN rg_mem
        /\ rg_done.op = "remove" => rg_done.id \notin DOMAIN rg_mem
        /\ rg_done.kept

\* C12: the calls of one manager are linearized by its lock: every call
\* returns what it returns when the calls are run one by one in the order of
\* their returns, the registry in memory and in the file is then the same,
\* and while a call is between its change in memory and the end of its write
\* it holds the lock and every other call is outside the lock.
C12_Linearized ==
    /\ rg_seq.agree
    /\ rg_lock = 0 =>
         /\ rg_loaded = rg_seq.loaded
         /\ rg_mem = rg_seq.mem
         /\ rg_file = rg_seq.file
    /\ \A k \in RegTasks :
         rg_task[k].pc \in {"loading", "saving"} =>
           /\ rg_lock = k
           /\ \A j \in RegTasks \ {k} : rg_task[j].pc \in {"idle", "waiting"}

\* C12 witness: a call changed the registry in memory and its write is not
\* done, while another call waits for the lock.
C12_Witness ==
    \E k, j \in RegTasks :
      /\ rg_task[k].pc = "saving"
      /\ rg_task[j].pc = "waiting"
      /\ rg_mem # rg_seq.mem

\* C13: delete_voice_full makes the remote deletion first and then always
\* calls the local remove_voice, whatever the remote outcome, and returns what
\* remove_voice returned.
C13_DeleteFull ==
    cm.kind = "delete" =>
        /\ cm.local # "none" => cm.remote # "none"
        /\ (cm.remote # "none" /\ cm.pc \in {"done", "except"}) => cm.local # "none"
        /\ cm.full = cm.local

\* C13 witness: the remote deletion raised and the local removal succeeded.
C13_Witness ==
    /\ cm.kind = "delete"
    /\ cm.remote = "raise"
    /\ cm.local = "true"
    /\ cm.res = "ok"

\* A batch run in which every item cloned.
AllCloned ==
    /\ cm.kind = "batch"
    /\ cm.idx = Len(cm.items)
    /\ cm.sc = Len(cm.items)

\* The ids given to the items differ from each other and from every id the
\* registry held when the batch started.
IdsDistinct ==
    /\ \A i, j \in 1..Len(cm.ids) : i # j => cm.ids[i] # cm.ids[j]
    /\ \A i \in 1..Len(cm.ids) : cm.ids[i] \notin cm.start

\* C14 (as stated): in a batch where every item clones, the ids are pairwise
\* distinct and not in the registry at the start, and the items with the same
\* base id B receive B, B_1, B_2, ... in item order.
C14_BatchIdsInOrder ==
    AllCloned =>
        /\ IdsDistinct
        /\ \A i \in 1..Len(cm.ids) :
             cm.ids[i] = Candidate(DerivedId(cm.items[i]),
                                   Cardinality({j \in 1..(i - 1) : cm.items[j] = cm.items[i]}))

\* C14 (amended): in a batch where every item clones, the ids are pairwise
\* distinct and not in the registry at the start, and each item receives the
\* first of B, B_1, B_2, ... that is neither in the registry at the start nor
\* given to an earlier item.
C14_BatchIdsFirstFree ==
    AllCloned =>
        /\ IdsDistinct
        /\ \A i \in 1..Len(cm.ids) :
             LET taken == cm.start \cup {cm.ids[j] : j \in 1..(i - 1)}
                 base == DerivedId(cm.items[i])
             IN  \E m \in 0..MaxCounter :
                   /\ cm.ids[i] = Candidate(base, m)
                   /\ \A n \in 0..(m - 1) : Candidate(base, n) \in taken

\* C14 witness: three files with the same base id were cloned into a registry
\* that already held that id.
C14_Witness ==
    /\ AllCloned
    /\ cm.items = <<"demo.mp3", "demo.mp3", "demo.mp3">>
    /\ cm.start = {"demo_cloned"}
    /\ cm.ids = <<"demo_cloned_1", "demo_cloned_2", "demo_cloned_3">>

\* Every item is handled once and in order: success_count + failed_count is
\* the number of items handled, and the loop is left only after the last item.
EveryItemOnce ==
    /\ cm.sc + cm.fc = cm.idx
    /\ cm.idx <= Len(cm.items)
    /\ cm.seen = [i \in 1..cm.idx |-> i]
    /\ (cm.idx > 0 /\ cm.pc \in {"done", "except"}) => cm.sc + cm.fc = Len(cm.items)

\* C15 (as stated): the batch handles every item once and in order whatever
\* happens to the earlier ones, and the result of the command is successful
\* iff success_count >= 1.
C15_ResultIffCloned ==
    cm.kind = "batch" =>
        /\ EveryItemOnce
        /\ (cm.pc = "done" /\ ~cm.esc /\ cm.idx > 0) => (cm.res = "ok" <=> cm.sc >= 1)

\* C15 (amended): the batch handles every item once and in order whatever
\* happens to the earlier ones; when the tally message is sent the result is
\* successful iff success_count >= 1, and when its sending raises the result
\* is never successful.
C15_BatchTally ==
    cm.kind = "batch" =>
        /\ EveryItemOnce
        /\ (cm.pc = "done" /\ ~cm.sraise /\ cm.idx > 0) => (cm.res = "ok" <=> cm.sc >= 1)
        /\ (cm.pc = "done" /\ cm.sraise) => cm.res # "ok"

\* C15 witness: of three items two failed and one cloned, and the command
\* returned success.
C15_Witness ==
    /\ cm.kind = "batch"
    /\ cm.pc = "done"
    /\ Len(cm.items) = 3
    /\ cm.fc = 2
    /\ cm.sc = 1
    /\ Len(cm.ids) = 1
    /\ cm.res = "ok"

\* C16 (as stated): /list_voices on a non-empty registry sends one listing
\* naming every voice id and returns success; on an empty registry it sends
\* the nothing-cloned message and returns success.  (Runs in which the host's
\* send raises are left out.)
C16_ListVoices ==
    (cm.kind = "list_voices" /\ cm.pc = "done" /\ ~cm.sraise) =>
        /\ cm.res = "ok"
        /\ DOMAIN rg_mem = {} => cm.sent = <<"nothing cloned">>
        /\ DOMAIN rg_mem # {} => (cm.sent = <<"listing">> /\ cm.listed = DOMAIN rg_mem)

\* C17 (as stated): whichever step of a command fails, the sending of a chat
\* message included, execute returns a tuple with intercepted = true and no
\* exception reaches the host.
C17_NoEscape == cm.pc = "done" => (cm.icpt /\ ~cm.esc)

\* C18: toggle_always_voice flips the membership of the chat and returns the
\* new membership; a second toggle restores the set and returns the opposite
\* value; /voice_always reports the value returned.
C18_ToggleTwice ==
    /\ \A c \in Chats :
         LET r1 == ToggleAlways(ch_always, c)
             r2 == ToggleAlways(r1.always, c)
         IN  /\ (c \in r1.always) # (c \in ch_always)
             /\ r1.always \ {c} = ch_always \ {c}
             /\ r1.ret = (c \in r1.always)
             /\ r2.always = ch_always
             /\ r2.ret # r1.ret
    /\ (cm.kind = "voice_always" /\ cm.pc = "done" /\ cm.sent = <<"on">>) =>
         cm.arg \in ch_always
    /\ (cm.kind = "voice_always" /\ cm.pc = "done" /\ cm.sent = <<"off">>) =>
         cm.arg \notin ch_always

\* C18 witness: the second /voice_always of a chat reported off and the
\* always-voice set is as it was at the start.
C18_Witness ==
    /\ cm.kind = "voice_always"
    /\ cm.pc = "done"
    /\ cm.sent = <<"off">>
    /\ cm.arg = "c1"
    /\ ch_always = {}

\* C19: when the answer to the submission of synthesize_async has status code
\* 0 and inline audio, the call returns what the shared audio handler returns
\* for that audio, and makes no task query and no sleep.
C19_InlineAudio ==
    (sy_last.of = "submit" /\ sy_last.kind = "json" /\ sy_last.code = 0
       /\ sy_last.audio # "none") =>
        /\ sy_pc = "done"
        /\ sy_result = ProcessAudio(sy_cfg, sy_last.audio)
        /\ Len(sy_reqs) = 1
        /\ sy_reqs[1].kind = "post"
        /\ sy_sleeps = <<>>

\* C19 witness: the submission was answered with audio and a task id, and the
\* call returned the cache file.
C19_Witness ==
    /\ sy_last.of = "submit"
    /\ sy_last.audio = "hex"
    /\ sy_last.task
    /\ sy_pc = "done"
    /\ sy_result = "file"

CeilDiv(a, b) == (a + b - 1) \div b

PollCount == Cardinality({i \in DOMAIN sy_reqs : sy_reqs[i].kind = "poll"})

\* A task query that failed in passing (non-200, timeout, transport error) or
\* was answered with a task still at work.
TransientPoll(l) ==
    /\ l.of = "poll"
    /\ \/ l.kind \in {"http_error", "timeout", "client_error"}
       \/ /\ l.kind = "json"
          /\ l.code # 0
          /\ l.top \notin {"failed", "error"}
          /\ (l.top = "" => l.data \notin {"failed", "error"})
       \/ /\ l.kind = "json"
          /\ l.code = 0
          /\ l.audio = "none"
          /\ ~l.url
          /\ l.data \in {"processing", "pending", "running"}

\* ceil(W / p), W and p in the same unit.
CeilWaitOverInterval == CeilDiv(Tenths(sy_cfg.max_wait), sy_cfg.poll_interval)

\* C20 as stated: on the asynchronous path the call never makes more than
\* ceil(W / p) task queries.
C20_CeilBound == sy_path = "async" => PollCount <= CeilWaitOverInterval

C20_PollBound ==
    sy_path = "async" =>
        /\ PollCount <= CeilWaitOverInterval + 1
        /\ sy_cfg.poll_interval \in ExactIntervals => PollCount <= CeilWaitOverInterval
        /\ sy_elapsed = sy_cfg.poll_interval * Len(sy_sleeps)
        /\ Len(sy_sleeps) = PollCount + (IF sy_pc = "poll_get" THEN 1 ELSE 0)
        /\ TransientPoll(sy_last) =>
             /\ sy_pc \in {"poll_sleep", "poll_get", "done"}
             /\ sy_pc = "poll_sleep" => sy_elapsed <= Tenths(sy_cfg.max_wait)
             /\ sy_pc = "done" =>
                   (sy_elapsed >= Tenths(sy_cfg.max_wait) /\ sy_result = "none")

\* C20: the polling loop of synthesize_async ends.  With poll interval p > 0
\* and maximum wait W it makes at most ceil(W/p) + 1 task queries, and at most
\* ceil(W/p) when the sums of p are exact, each query after one sleep of p; a
\* query that fails in passing or finds the task still at work does not end
\* the call, which goes on while the accumulated wait compares below W and
\* returns None once it has reached W.
C20_PollingEnds == [](C20_PollBound) /\ <>(sy_pc = "done")

\* C20 witness: with W = 1 s and p = 0.1 s the call made ceil(W/p) + 1 = 11
\* task queries, the last one timed out, and it returned None.
C20_Witness ==
    /\ sy_path = "async"
    /\ sy_cfg.max_wait = 1
    /\ sy_cfg.poll_interval = 1
    /\ PollCount = 11
    /\ sy_last.of = "poll"
    /\ sy_last.kind = "timeout"
    /\ sy_pc = "done"
    /\ sy_result = "none"

\* The day a stamp names, when it is a str that parses as a timestamp.
StampDay(info) ==
    LET c == DictGet(info, "created_at", PyStr(""))
    IN  IF c.t = "str" /\ c.v # "" THEN FromIso(c.v) ELSE -1

OldFiles ==
    {n \in DOMAIN cc.dir.files :
        cc.dir.files[n].regular /\ cc.dir.files[n].age > cc.max * 3600}

\* C22 (as stated): cleanup_audio_cache(max_age_hours) deletes exactly the
\* regular files of the cache directory that are older than max_age_hours,
\* keeps the others, returns the number deleted, and returns 0 when the
\* directory does not exist.
C22_DeletesOld ==
    cc.pc = "done" =>
        /\ DOMAIN cc.dir.files \ cc.left = OldFiles
        /\ cc.count = Cardinality(DOMAIN cc.dir.files \ cc.left)
        /\ ~cc.dir.exists => cc.count = 0

\* C22 (amended): cleanup_audio_cache(max_age_hours) deletes exactly the
\* regular files older than max_age_hours that the operating system lets it
\* stat and remove; a file whose getmtime or removal raises OSError is kept
\* and not counted; it keeps all other entries, returns the number deleted,
\* and returns 0 without error when the directory does not exist.
C22_DeletesOldRemovable ==
    cc.pc = "done" =>
        /\ DOMAIN cc.dir.files \ cc.left =
             {n \in OldFiles : cc.dir.files[n].os = "ok"}
        /\ cc.count = Cardinality(DOMAIN cc.dir.files \ cc.left)
        /\ ~cc.dir.exists => cc.count = 0

\* C22 witness: with max_age_hours = 24 the file 25 hours old was deleted and
\* the one exactly a day old was kept.
C22_Witness ==
    /\ cc.pc = "done"
    /\ cc.max = 24
    /\ DOMAIN cc.dir.files = {"a.mp3", "b.mp3"}
    /\ cc.dir.files["a.mp3"] = [regular |-> TRUE, age |-> 90000, os |-> "ok"]
    /\ cc.dir.files["b.mp3"] = [regular |-> TRUE, age |-> 86400, os |-> "ok"]
    /\ cc.left = {"b.mp3"}
    /\ cc.count = 1

AsciiLetters == {"a", "c", "e", "i", "o", "y", "z", "A", "M", "V", "Z"}

Digits == {"0", "1", "9"}

\* The id format in words: an ASCII letter first, 8 to 256 characters in all,
\* and after the first only letters, digits, underscores and hyphens.
WellFormedId(s) ==
    /\ Len(s) >= 8
    /\ Len(s) <= 256
    /\ s[1] \in AsciiLetters
    /\ \A i \in 2..Len(s) : s[i] \in AsciiLetters \cup Digits \cup {"_", "-"}

\* C23: the id validator of /clone_voice accepts an id iff it is well formed;
\* a command whose id it rejects makes no upload, no clone request and no
\* change to the registry or its file.
C23_IdValidator ==
    LET t == cl.task[1]
    IN  t.pc \notin {"off", "idle", "validate"} =>
          /\ t.why = "format" <=> ~WellFormedId(t.id)
          /\ t.why = "format" =>
               /\ t.pc = "done" /\ t.res = "fail"
               /\ t.ups = 0 /\ ~t.cloned
               /\ cl.stores = <<>>
               /\ RegLoad = cl.reg0
               /\ rg_file = ClRegFile(cl.reg0)
          /\ (t.ups > 0 \/ t.cloned \/ cl.stores # <<>>) => WellFormedId(t.id)

\* C23 witness: an id of 256 characters passed the format check and went all
\* the way to the registry.
C23_Witness ==
    /\ Len(cl.task[1].id) = 256
    /\ cl.task[1].why = "stored"
    /\ cl.task[1].id \in DOMAIN rg_mem

\* C27 (as stated): a /clone_voice command never replaces a record of the
\* registry: no add_voice of a command finds its id in the registry, and of
\* the commands that run together on one id at most one stores a record
\* under it.
C27_NeverReplaces ==
    /\ \A i \in DOMAIN cl.stores : ~cl.stores[i].replaced
    /\ \A i, j \in DOMAIN cl.stores : i # j => cl.stores[i].id # cl.stores[j].id

DigitValue(c) ==
    CASE c = "0" -> 0 [] c = "1" -> 1 [] c = "2" -> 2 [] c = "3" -> 3 [] c = "4" -> 4
      [] c = "5" -> 5 [] c = "6" -> 6 [] c = "7" -> 7 [] c = "8" -> 8 [] c = "9" -> 9
      [] OTHER -> -1

\* What the body's text has after the text given.
MarkerText == SubSeq(rb.body.text, Len(rb.text) + 1, Len(rb.body.text))

\* The tail is a marker <#D#> with D written as one or two digits, a point
\* and two digits; its value in hundredths, -1 when it is no such marker.
MarkerHundredths ==
    LET n == Len(MarkerText)
        d == SubSeq(MarkerText, 3, n - 2)
        k == Len(d)
    IN  IF /\ n \in {8, 9}
           /\ SubSeq(MarkerText, 1, 2) = <<"<", "#">>
           /\ SubSeq(MarkerText, n - 1, n) = <<"#", ">">>
           /\ d[k - 2] = "."
           /\ \A i \in (1..k) \ {k - 2} : DigitValue(d[i]) >= 0
           /\ (k = 5 => d[1] # "0")
        THEN (IF k = 5 THEN 1000 * DigitValue(d[1]) + 100 * DigitValue(d[2])
              ELSE 100 * DigitValue(d[1]))
             + 10 * DigitValue(d[k - 1]) + DigitValue(d[k])
        ELSE -1

\* C24: the body's text is the text given followed by a pause marker iff the
\* configured pause is above 0; the marker is <#D#>, D being the pause brought
\* into [0.01, 99.99] and written with two decimals (150 gives <#99.99#>, 0.5
\* gives <#0.50#>); with a pause of 0 or less the text is unchanged.
C24_PauseMarker ==
    rb.pc = "done" =>
        /\ SubSeq(rb.body.text, 1, Len(rb.text)) = rb.text
        /\ rb.cfg.pause <= 0 => rb.body.text = rb.text
        /\ rb.cfg.pause > 0 =>
             LET clamped == IF rb.cfg.pause < 10 THEN 10
                            ELSE IF rb.cfg.pause > 99990 THEN 99990 ELSE rb.cfg.pause
             IN  /\ MarkerHundredths >= 1
                 /\ MarkerHundredths <= 9999
                 /\ 10 * MarkerHundredths - clamped <= 5
                 /\ clamped - 10 * MarkerHundredths <= 5
        /\ rb.cfg.pause = 150000 => MarkerText = <<"<", "#", "9", "9", ".", "9", "9", "#", ">">>
        /\ rb.cfg.pause = 500 => MarkerText = <<"<", "#", "0", ".", "5", "0", "#", ">">>

\* C24 witness: a pause of 0.5 s gave the text followed by <#0.50#>.
C24_Witness ==
    /\ rb.pc = "done"
    /\ rb.cfg.pause = 500
    /\ rb.body.text = <<"h", "i", "<", "#", "0", ".", "5", "0", "#", ">">>

\* C25: in every body built, text_normalization, english_normalization and
\* latex_read are top-level keys only, present only when configured true and
\* then with the value true, never keys of voice_setting; emotion is a key of
\* voice_setting only, never of the top level.
C25_FieldPlacement ==
    rb.pc = "done" =>
        /\ \A f \in NormFlags :
             /\ f \notin DOMAIN rb.body.voice_setting
             /\ f \notin rb.body.audio_setting \cup rb.body.voice_modify
             /\ f \in DOMAIN rb.body.top => (rb.cfg[f] /\ rb.body.top[f] = "True")
        /\ "emotion" \notin DOMAIN rb.body.top
        /\ "emotion" \notin rb.body.audio_setting \cup rb.body.voice_modify
        /\ (Truthy(rb.override) \/ Truthy(rb.cfg.emotion)) =>
             "emotion" \in DOMAIN rb.body.voice_setting

\* C25 witness: a streaming body with text_normalization on and an emotion:
\* the flag is at the top level and the emotion under voice_setting.
C25_Witness ==
    /\ rb.pc = "done"
    /\ rb.path = "stream"
    /\ rb.cfg.text_normalization
    /\ "text_normalization" \in DOMAIN rb.body.top
    /\ "emotion" \in DOMAIN rb.body.voice_setting
    /\ rb.body.voice_setting["emotion"] = "sad"

LowerHexDigit(n) ==
    CASE n = 0 -> "0" [] n = 1 -> "1" [] n = 2 -> "2" [] n = 3 -> "3" [] n = 4 -> "4"
      [] n = 5 -> "5" [] n = 6 -> "6" [] n = 7 -> "7" [] n = 8 -> "8" [] n = 9 -> "9"
      [] n = 10 -> "a" [] n = 11 -> "b" [] n = 12 -> "c" [] n = 13 -> "d"
      [] n = 14 -> "e" [] n = 15 -> "f"

\* The hex encoding of a byte sequence: two lower-case digits a byte.
HexOf(B) ==
    [i \in 1..(2 * Len(B)) |->
       LET b == B[(i + 1) \div 2]
       IN  IF i % 2 = 1 THEN LowerHexDigit(b \div 16) ELSE LowerHexDigit(b % 16)]

\* The byte sequences whose encodings are among the values followed.
ByteSeqs == UNION {[1..n -> {0, 10, 15, 160, 175, 250, 255}] : n \in 0..(MaxHexLen \div 2)}

\* One file more than before, named as returned and holding B.
WroteOneFile(B) ==
    /\ ar.ret.kind = "path"
    /\ ar.ret.name \in DOMAIN ar.dir
    /\ ar.ret.name \notin DOMAIN ar.dir0
    /\ DOMAIN ar.dir = DOMAIN ar.dir0 \cup {ar.ret.name}
    /\ ar.dir[ar.ret.name] = B
    /\ \A n \in DOMAIN ar.dir0 : ar.dir[n] = ar.dir0[n]

WroteNothing == ar.ret = RetNone /\ ar.dir = ar.dir0

\* Digits only, two a byte.
StrictHex(s) == Len(s) % 2 = 0 /\ \A i \in 1..Len(s) : HexVal(s[i]) >= 0

\* Pairs of adjacent digits with blanks before, between or after them: with
\* the blanks left out the digits pair up, and no blank parts a pair.
SpacedHex(s) ==
    LET digitAt == {i \in 1..Len(s) : ~IsSpace(s[i])}
        before(i) == Cardinality({j \in digitAt : j < i})
    IN  /\ \A i \in digitAt : HexVal(s[i]) >= 0
        /\ Cardinality(digitAt) % 2 = 0
        /\ \A i \in digitAt : before(i) % 2 = 0 => i + 1 \in digitAt

\* C26: with output_format "hex", the hex encoding of any byte sequence B
\* makes the handler write one new cache file holding B and return its path;
\* an invalid hex string (one that is not digits only, two a byte) yields
\* failure and no file.
C26_HexRoundTrip ==
    (ar.pc = "done" /\ ar.output_format = "hex") =>
        /\ \A B \in ByteSeqs : ar.value = HexOf(B) => WroteOneFile(B)
        /\ ~StrictHex(ar.value) => WroteNothing

\* C26 amended: the same round trip; failure and no file for every string
\* that is not pairs of hex digits with, at most, blanks around the pairs.
\* Blanks around the pairs are passed over and the pairs are written.
C26_HexRoundTripSpaced ==
    (ar.pc = "done" /\ ar.output_format = "hex") =>
        /\ \A B \in ByteSeqs : ar.value = HexOf(B) => WroteOneFile(B)
        /\ ~SpacedHex(ar.value) => WroteNothing
        /\ SpacedHex(ar.value) => ar.ret.kind = "path"

\* C26 witness: the value "a0ff" was written as the bytes 160, 255 into a
\* directory that held another file, and the new file's name returned.
C26_Witness ==
    /\ ar.pc = "done"
    /\ ar.output_format = "hex"
    /\ ar.value = <<"a", "0", "f", "f">>
    /\ DOMAIN ar.dir0 = {2}
    /\ ar.ret.kind = "path"
    /\ ar.ret.name \in {1, 3}
    /\ ar.dir[ar.ret.name] = <<160, 255>>

\* C28: whatever the interleaving of the get_instance calls, every caller is
\* handed the same client object, one client and at most one rate limiter
\* are ever constructed, and a session is created only when the client held
\* none or held a closed one.
C28_OneClient ==
    /\ Cardinality(gi.returned) <= 1
    /\ \A j, k \in ClientUsers :
         (gi.caller[j].client # 0 /\ gi.caller[k].client # 0) =>
             gi.caller[j].client = gi.caller[k].client
    /\ gi.clients <= 1
    /\ gi.limiters <= 1
    /\ \A c \in gi.created : c.held = 0 \/ c.heldClosed

\* C28 witness: two callers hold the client at once, the limiter exists, and
\* a second session was created after the first was closed.
C28_Witness ==
    /\ \A k \in ClientUsers : gi.caller[k].client = 1
    /\ gi.caller[1].pc = "client"
    /\ gi.caller[2].pc = "client"
    /\ gi.limiters = 1
    /\ \E c \in gi.created : c.session = 2 /\ c.heldClosed

\* A data: event whose JSON carries a status code other than 0.
IsErrorEvent(l) ==
    l.prefix /\ l.payload /\ l.json = "object" /\ l.base = "object" /\ l.code # 0

\* C29: a synthesize_stream call sends at most one HTTP request, and an event
\* with a non-zero status code ends it at once: nothing after that event is
\* read, None is returned and the cache directory is as it was, fragments
\* collected or not.
C29_OneRequestErrorEnds ==
    /\ ss.requests <= 1
    /\ \A j \in 1..ss.read :
         IsErrorEvent(ss.lines[j]) =>
             /\ ss.read = j
             /\ ss.pc = "done"
             /\ ss.ret = RetNone
             /\ ss.dir = ss.dir0

\* C29 witness: a fragment was collected, the next event carried status code
\* 1004, and the call returned None with one request sent and no file written.
C29_Witness ==
    /\ ss.pc = "done"
    /\ ss.requests = 1
    /\ ss.read = 2
    /\ ss.chunks = <<(<<160>>)>>
    /\ IsErrorEvent(ss.lines[2])
    /\ ss.ret = RetNone
    /\ ss.dir = ss.dir0

\* The fragment of a well-formed data: event, <<>> for every other line: the
\* bytes of its audio when that is a non-empty string of hex pairs.
FragmentOf(l) ==
    IF /\ l.prefix /\ l.payload /\ l.json = "object" /\ l.data = "object"
       /\ l.audio = "str" /\ l.hex # <<>> /\ SpacedHex(l.hex)
    THEN <<[i \in 1..(Len(l.hex) \div 2) |->
              16 * HexVal(l.hex[2 * i - 1]) + HexVal(l.hex[2 * i])]>>
    ELSE <<>>

RECURSIVE FragmentsOf(_)
\* The fragments of a stream, in the order of arrival.
FragmentsOf(lines) ==
    IF lines = <<>> THEN <<>> ELSE FragmentOf(Head(lines)) \o FragmentsOf(Tail(lines))

RECURSIVE Concatenation(_)
Concatenation(frags) ==
    IF frags = <<>> THEN <<>> ELSE Head(frags) \o Concatenation(Tail(frags))

\* The stream was answered with 200, was not cut, and holds no error event.
EndsWithoutError ==
    /\ ss.status = "200"
    /\ ss.why # "broken"
    /\ \A j \in 1..Len(ss.lines) : ~IsErrorEvent(ss.lines[j])

\* C30: when the stream ends without an error event, the call writes exactly
\* one cache file, holding the decoded fragments of the well-formed data:
\* events in the order of arrival, and returns its path; when no fragment was
\* decoded it returns None and writes nothing.
C30_FragmentsWritten ==
    (ss.pc = "done" /\ EndsWithoutError) =>
        LET frags == FragmentsOf(ss.lines)
        IN  IF frags = <<>> THEN ss.ret = RetNone /\ ss.dir = ss.dir0
            ELSE /\ ss.ret.kind = "path"
                 /\ ss.ret.name \notin DOMAIN ss.dir0
                 /\ DOMAIN ss.dir = DOMAIN ss.dir0 \cup {ss.ret.name}
                 /\ ss.dir[ss.ret.name] = Concatenation(frags)
                 /\ \A n \in DOMAIN ss.dir0 : ss.dir[n] = ss.dir0[n]

\* The last answer was a task query answered with status code 0, without
\* audio and without an audio url, whose data.status is none of processing,
\* pending, running.
SuccessWithoutData ==
    /\ sy_last.of = "poll"
    /\ sy_last.kind = "json"
    /\ sy_last.code = 0
    /\ sy_last.audio = "none"
    /\ ~sy_last.url
    /\ sy_last.data \notin {"processing", "pending", "running"}

\* C31: in synthesize_async a task query answered with status code 0 that
\* carries neither audio nor an audio url, and whose task status is none of
\* processing, pending, running, ends the call at once with None: that query
\* stays the last request of the call, however much of the wait is left.
C31_SuccessWithoutDataFails ==
    SuccessWithoutData =>
        /\ sy_pc = "done"
        /\ sy_result = "none"
        /\ sy_file = <<>>
        /\ sy_reqs[Len(sy_reqs)].kind = "poll"

\* C31 witness: the first query of a call that could have waited longer was
\* answered with status code 0, no audio and the task status "success"; the
\* call returned None after that one query.
C31_Witness ==
    /\ SuccessWithoutData
    /\ sy_last.data = "success"
    /\ PollCount = 1
    /\ sy_elapsed < Tenths(sy_cfg.max_wait)
    /\ sy_result = "none"

\* The injector has returned, and the prompt it leaves differs from the one
\* it was given iff the prompt was non-empty, the conversation known and
\* always-voice mode on for it.
InjectedIffAlways ==
    inj.pc = "done" =>
        LET modified == inj.out # inj.prompt
        IN  /\ modified <=> (/\ inj.prompt \notin {NoMessage, <<>>}
                             /\ inj.chat # NoChat
                             /\ inj.alw)
            /\ modified => inj.out = <<"VOICE_TEXT_GUIDELINES", "\n">> \o inj.prompt

RecordedBy(emotion) == IF emotion \in VALID_EMOTIONS THEN emotion ELSE NoKey

\* C33: mark_tts_pending(chat, emotion) leaves chat in the pending set with
\* emotion recorded when it is one of the 9 valid tags and with no recorded
\* emotion otherwise, whatever an earlier mark recorded; and a consume that
\* finds the flag returns the emotion of the most recent mark, None when that
\* mark recorded none.
C33_LastMarkWins ==
    [][ /\ po'.op = "mark" =>
             /\ po'.chat \in ch_pend'
             /\ ch_emo'[po'.chat] = RecordedBy(po'.arg)
        /\ (po'.op = "consume" /\ po'.was) =>
             /\ po.marked[po'.chat] # NoKey
             /\ po'.e = (IF RecordedBy(po.marked[po'.chat]) = NoKey THEN NoneVal
                         ELSE RecordedBy(po.marked[po'.chat])) ]_vars

\* C33 witness: a conversation whose recorded emotion was "happy" was marked
\* again with a string that is no tag, and the consume that followed returned
\* (True, None).
C33_Witness ==
    /\ po.op = "consume"
    /\ po.chat = "c1"
    /\ po.was
    /\ po.e = NoneVal
    /\ po.marked["c1"] = "shout"

\* C34: the tool called with enable = false leaves its conversation without
\* pending flag and without recorded emotion, so that the consume of the
\* handler that comes next finds no flag and the tool-flag trigger does not
\* apply, whatever an earlier enable = true call had marked; called without
\* a conversation it changes nothing.
C34_CancelClears ==
    [][ /\ (po'.op = "tool" /\ po'.chat # NoChat /\ ~po'.enable) =>
             /\ po'.chat \notin ch_pend'
             /\ ch_emo'[po'.chat] = NoKey
        /\ (po'.op = "tool" /\ po'.chat = NoChat) =>
             UNCHANGED <<ch_pend, ch_emo, ch_always>>
        /\ (po'.op = "consume" /\ po'.chat \in po.cancelled) =>
             /\ ~po'.was
             /\ \A alw \in BOOLEAN, p \in Probabilities, d \in Draws :
                  Trigger(alw, po'.was, p, d) # "flag" ]_vars

\* C34 witness: a conversation marked with "happy" was cancelled by the tool,
\* and the consume that followed returned (False, None).
C34_Witness ==
    /\ po.op = "consume"
    /\ po.chat = "c1"
    /\ "c1" \in po.cancelled
    /\ po.marked["c1"] = "happy"
    /\ ~po.was
    /\ po.e = NoneVal

\* C38: whatever the order of the marks, consumes, cancellations and toggles,
\* every conversation with a recorded emotion is in the pending set and every
\* recorded emotion is one of the 9 valid tags.
C38_EmotionImpliesPending ==
    \A c \in Chats :
        ch_emo[c] # NoKey => (c \in ch_pend /\ ch_emo[c] \in VALID_EMOTIONS)

\* C38 witness: after a consume on one conversation, the other is pending
\* with the emotion "happy" recorded, and the consumed one has neither flag
\* nor emotion.
C38_Witness ==
    /\ po.op = "consume"
    /\ po.chat = "c1"
    /\ po.was
    /\ po.e = "happy"
    /\ "c1" \notin ch_pend
    /\ ch_emo["c1"] = NoKey
    /\ "c2" \in ch_pend
    /\ ch_emo["c2"] = "happy"

\* C39: an operation on one conversation leaves the pending flag, the
\* recorded emotion and the always-voice membership of every other
\* conversation as they were; toggle_always_voice changes no pending flag and
\* no emotion; mark, consume and the tool change no always-voice membership.
C39_OtherChatsUntouched ==
    [][ /\ \A b \in Chats \ {po'.chat} :
             /\ (b \in ch_pend') = (b \in ch_pend)
             /\ ch_emo'[b] = ch_emo[b]
             /\ (b \in ch_always') = (b \in ch_always)
        /\ po'.op = "toggle" => UNCHANGED <<ch_pend, ch_emo>>
        /\ po'.op \in {"mark", "consume", "tool"} => UNCHANGED ch_always ]_vars

\* C39 witness: always-voice mode was switched on for one conversation while
\* it and the other one were pending with an emotion recorded and the other
\* one was in always-voice mode.
C39_Witness ==
    /\ po.op = "toggle"
    /\ po.chat = "c1"
    /\ po.ret
    /\ ch_always = {"c1", "c2"}
    /\ ch_pend = {"c1", "c2"}
    /\ ch_emo["c1"] = "happy"
    /\ ch_emo["c2"] = "happy"

\* The requests of a command with or without a prompt audio, in the order of
\* the steps.
CloneSteps(prompt) ==
    IF prompt THEN <<"upload_main", "upload_prompt", "clone", "add">>
    ELSE <<"upload_main", "clone", "add">>

\* C35: the requests of a /clone_voice command come in the order upload of
\* the audio, upload of the prompt audio if one was given, clone request,
\* add to the registry, each one only after the one before it succeeded; a
\* command that fails a check makes no request at all, one whose upload
\* fails makes no clone request, and add_voice is called only by a command
\* whose clone request succeeded.
C35_StepsInOrder ==
    \A k \in CloneTasks :
        LET t == cl.task[k]
        IN  /\ Len(t.log) <= Len(CloneSteps(t.prompt))
            /\ \A i \in DOMAIN t.log :
                 /\ t.log[i].what = CloneSteps(t.prompt)[i]
                 /\ i < Len(t.log) => t.log[i].ok
            /\ t.why \in {"format", "exists", "precheck"} => t.log = <<>>
            /\ t.why \in {"upload", "upload_prompt"} =>
                 \A i \in DOMAIN t.log : t.log[i].what \notin {"clone", "add"}
            /\ t.why = "clone" => \A i \in DOMAIN t.log : t.log[i].what # "add"
            /\ \A i \in DOMAIN cl.stores :
                 cl.stores[i].k = k =>
                    \E j \in DOMAIN t.log : t.log[j].what = "clone" /\ t.log[j].ok

\* C35 witness: a command with a prompt audio made its four requests in
\* order and stored its record, while another command's prompt upload failed
\* and it went no further.
C35_Witness ==
    /\ cl.task[1].prompt
    /\ cl.task[1].why = "stored"
    /\ Len(cl.task[1].log) = 4
    /\ cl.task[1].id \in DOMAIN rg_mem
    /\ cl.task[2].why = "upload_prompt"
    /\ Len(cl.task[2].log) = 2

\* The handler takes a step.
HandlerStep == h' # h

\* C36: a handler run for a reply with content and a conversation id passes
\* through exactly one consume_tts_pending call, whatever is_always_voice
\* returned; when that call returns the conversation has no pending flag and
\* no recorded emotion; nothing the handler does afterwards, whether synthesis
\* and sending succeed or not, writes the flag or the emotion back; and between
\* two marks of a conversation at most one consume returns True, so one mark
\* makes at most one reply spoken.
C36_HandlerConsumesFlag ==
    [][ /\ (HandlerStep /\ h.pc = "consume")
           => (h.chat \notin ch_pend' /\ ch_emo'[h.chat] = NoKey)
        /\ (HandlerStep /\ h.pc \in {"synth", "send", "done"})
           => UNCHANGED <<ch_pend, ch_emo>>
        /\ (HandlerStep /\ h'.pc = "done" /\ h'.content # "none" /\ h'.chat # NoChat)
           => h.pc \in {"consume", "synth", "send"}
        /\ (HandlerStep /\ h'.pc \in {"synth", "send"}) => h.pc \in {"consume", "synth"}
        /\ \A c \in Chats : ch_trues'[c] <= 1 ]_vars

\* C36 witness: in always-voice mode the handler consumed a flag with the
\* emotion happy, synthesis returned no audio, and the conversation is left
\* without flag and emotion.
C36_Witness ==
    /\ h.pc = "done"
    /\ h.reason = "synth_failed"
    /\ h.trigger = "always"
    /\ h.was
    /\ h.emo = "happy"
    /\ h.chat \notin ch_pend
    /\ ch_emo[h.chat] = NoKey
    /\ ch_trues[h.chat] = 1

\* The reply text was blanked or the host was told not to deliver it.
TextSuppressed == h.blank \/ ~h.cont

\* C37: the handler blanks the reply text and tells the host to stop the text
\* delivery only in the run in which auto_synthesize returned an audio path and
\* the voice-message send call returned; both happen together. However else
\* the run ends (no content, no conversation id, no trigger, empty text, a
\* missing key or voice id, no audio, an exception in synthesis or in the
\* send) the text is as generated and the delivery continues. The send is
\* made only after synthesis returned audio.
C37_BlankOnlyAfterSend ==
    /\ [](TextSuppressed => (h.pc = "done" /\ h.reason = "sent" /\ h.synth /\ h.sent))
    /\ []((h.pc = "done" /\ h.reason = "sent") => (h.blank /\ ~h.cont))
    /\ []((h.pc = "done" /\ h.reason # "sent") => (~h.blank /\ h.cont /\ ~h.sent))
    /\ [][ /\ (h'.sent /\ ~h.sent) => h.pc = "send"
           /\ (h'.pc = "send" /\ h.pc # "send") => (h.pc = "synth" /\ h.synth)
           /\ (~TextSuppressed /\ TextSuppressed') => (h.pc = "send" /\ h'.sent) ]_vars

\* C37 witness: a flag made the reply spoken, synthesis returned audio, the
\* send returned, and the text is blanked and not delivered.
C37_Witness ==
    /\ h.pc = "done"
    /\ h.reason = "sent"
    /\ h.trigger = "flag"
    /\ h.sent
    /\ h.blank
    /\ ~h.cont

\* No call of the manager is between its change in memory and the end of its
\* write.
NoWriteRunning == \A k \in RegTasks : rg_task[k].pc # "saving"

\* The file holds the dump of the whole registry in memory.
FileIsMemory ==
    /\ rg_file = [kind |-> "json", data |-> EncodeReg(rg_mem)]
    /\ LoadSync(rg_file) = rg_mem

\* C40: while no write is running, if the manager's most recent file write
\* succeeded, the file holds exactly the registry in memory, so whatever a
\* failed write had left in memory only is in the file after the next write
\* that succeeds. touch_voice and remove_voice start a write only for an id
\* the registry holds; for an unknown id they return (remove_voice False)
\* with the file and the registry as they were.
C40_WriteStoresAll ==
    /\ []((rg_loaded /\ NoWriteRunning /\ rg_seq.lastw \in {"ok", "ok_after_fail"})
          => FileIsMemory)
    /\ [][ /\ \A k \in RegTasks :
                (rg_task'[k].pc = "saving" /\ rg_task[k].pc # "saving"
                 /\ rg_task'[k].call.op \in {"touch", "remove"})
                => rg_task'[k].call.id \in DOMAIN RegLoad
           /\ (rg_done' # rg_done /\ rg_done'.op \in {"touch", "remove"})
                => IF rg_done'.o = "none"
                     THEN /\ rg_done'.id \notin DOMAIN RegLoad
                          /\ rg_file' = rg_file
                          /\ rg_mem' = RegLoad
                          /\ ~rg_done'.b
                     ELSE \E k \in RegTasks : rg_task[k].pc = "saving" ]_vars

\* C40 witness: an add of v1 failed to write and stayed in memory; the touch
\* of v2 that followed wrote the file, which now holds v1 as well.
C40_Witness ==
    /\ rg_loaded
    /\ NoWriteRunning
    /\ rg_seq.lastw = "ok_after_fail"
    /\ rg_done.op = "touch"
    /\ rg_done.id = "v2"
    /\ rg_done.o = "ok"
    /\ DOMAIN LoadSync(rg_file) = {"v1", "v2"}
    /\ FileIsMemory

====
